---------------------------- MODULE Spec2Model ----------------------------
(***************************************************************************)
(* A model of the lean-lsp session runtime: the per-session actor          *)
(* (SessionRunner), the subprocess pump (LeanServerProcess), the           *)
(* Content-Length codec (LeanServerStdout), the notifications hub and the  *)
(* session-set actor (SessionSetRunner).                                   *)
(***************************************************************************)
EXTENDS Integers, Sequences, FiniteSets, TLC

(***************************************************************************)
(* Bounds of the model.                                                    *)
(***************************************************************************)
\* file commands (OpenFile, ChangeFile, CloseFile) issued to a session over a run
MaxFileCommands == 4
\* request commands (Initialize, HoverFile, GetPlainGoals, ...) issued over a run
MaxRequestCommands == 3
\* frames the child emits unasked (notifications, requests of its own) over a run
MaxUnsolicited == 1
\* frames the child writes to its stdout over a run of the codec
MaxFrames == 3
\* subscribers of a session's notifications hub
MaxSubscribers == 2
\* notifications the child sends over a run of the hub
MaxNotifications == 34
\* sessions created in a session set over a run
MaxSessions == 3
\* commands issued to the session set over a run
MaxSetCommands == 4
\* commands issued to a session whose callers may abandon them
MaxCancelCommands == 2
\* commands issued to the session of a session set over a run
MaxEndCommands == 2

MaxFiltered == 4

\* the most components of a path given to a new session
MaxDepth == 2

(***************************************************************************)
(* Paths and URIs.  A path is the sequence of its components; an absolute  *)
(* path starts with the root component "/".                                *)
(***************************************************************************)
Cwd == <<"/", "cwd">>
RelPath == <<"Foo.lean">>
AbsPath == <<"/", "cwd", "Foo.lean">>
Paths == {RelPath, AbsPath}

\* std::path::absolute: a relative path is resolved against the current
\* working directory, an absolute one is kept
absolute(path) == IF Head(path) = "/" THEN path ELSE Cwd \o path

\* "file://" followed by the absolute path
to_uri(path) == <<"file://">> \o absolute(path)

INITIAL_TEXT_DOCUMENT_VERSION == 0

(***************************************************************************)
(* Messages.  A message is a record; a notification carries no id (NoId).  *)
(***************************************************************************)
NoId == -1
NoVersion == -1
NoUri == <<>>

notification(method, uri, version) ==
    [method |-> method, id |-> NoId, uri |-> uri, version |-> version]

request_with_id(id, method, uri) ==
    [method |-> method, id |-> id, uri |-> uri, version |-> NoVersion]

did_open_notification(uri) ==
    notification("textDocument/didOpen", uri, INITIAL_TEXT_DOCUMENT_VERSION)

did_change_notification(uri, version) ==
    notification("textDocument/didChange", uri, version)

did_close_notification(uri) ==
    notification("textDocument/didClose", uri, NoVersion)

initialized_notification == notification("initialized", NoUri, NoVersion)

\* the four requests with the second sent before the first
OpenRequestMethodsSwapped ==
    << "textDocument/codeAction", "textDocument/documentSymbol",
       "textDocument/foldingRange", "$/lean/rpc/connect" >>

\* the four requests OpenFile sends after didOpen, in the order it sends them
OpenRequestMethods ==
    << "textDocument/documentSymbol", "textDocument/codeAction",
       "textDocument/foldingRange", "$/lean/rpc/connect" >>

\* the Request variant registered for each of them
OpenRequestKinds ==
    << "TextDocumentDocumentSymbol", "TextDocumentDocumentCodeAction",
       "TextDocumentFoldingRange", "LeanRpcConnect" >>

FireAndForget ==
    { "TextDocumentDocumentSymbol", "TextDocumentDocumentCodeAction",
      "TextDocumentFoldingRange", "LeanRpcConnect" }


(***************************************************************************)
(* State.                                                                  *)
(***************************************************************************)
VARIABLES
    \* ---- session actor (SessionRunner) ----
    commands,            \* the command channel: commands sent, not yet handled
    requests,            \* the pending-request table: id -> [kind, slot]
    open_file_versions,  \* the open-files map: path -> version
    runner,              \* the run loop: "running" or "ended"
    \* ---- message factory (Messages) ----
    next_id,             \* the AtomicUsize minting request ids
    \* ---- subprocess pump (LeanServerProcess) and the child ----
    inputs,              \* channel actor -> pump: messages to write to stdin
    outputs,             \* channel pump -> actor: frames read from stdout
    pump,                \* the pump task: "running", "spinning" or "ended"
    child,               \* the child process: "alive" or "exited"
    stdin,               \* what the child has received on its stdin, in order
    answered,            \* the ids of the requests the child has answered
    emitted,             \* number of frames the child has sent unasked
    \* ---- callers ----
    slots,               \* one entry per command issued: [kind, path, st]
    \* ---- notifications hub ----
    hub,                 \* the notifications the broadcast channel accepted, in order
    \* ---- history ----
    registered,          \* every insert into the pending table: [id, kind, slot]
    resolutions,         \* every slot resolved by a response: [id, slot]
    \* ---- subscribers of the hub ----
    subscribers,         \* per receiver: [from, next, got]
    published,           \* number of notifications the actor has broadcast
    \* ---- codec (LeanServerStdout) ----
    wire,                \* bytes the child wrote to stdout, not yet read
    buf,                 \* LeanServerStdout::buf
    phase,               \* where next_message stands: "idle", "header", "body", "failed"
    content_length,      \* next_message's content_length once the header is parsed
    written,             \* the bodies the child framed and wrote, in order
    decoded,             \* the bodies next_message returned, in order
    \* ---- session set (SessionSetRunner) ----
    sessions,            \* the dictionary: the ids of the sessions held
    session_results,     \* the JoinSet: session id -> state of its run task
    set_commands,        \* the set's command channel
    set_slots,           \* one entry per set command issued: [kind, session_id, st]
    set_runner,          \* the set's run loop: "running" or "ended"
    \* ---- project directory (SessionRunner::new) ----
    project              \* the last resolution: [lean_path, is_dir, files, result]

session_vars ==
    << commands, requests, open_file_versions, runner, next_id, inputs,
       outputs, pump, child, stdin, answered, emitted, slots, hub, registered,
       resolutions >>

hub_vars == << subscribers, published >>

codec_vars == << wire, buf, phase, content_length, written, decoded >>

set_vars == << sessions, session_results, set_commands, set_slots, set_runner >>

vars == << session_vars, hub_vars, codec_vars, set_vars, project >>

(***************************************************************************)
(* Callers.  A caller builds a one-shot channel, sends the command with    *)
(* the sender half and awaits the receiver half (the run! macro).          *)
(***************************************************************************)
CommandKinds ==
    { "Initialize", "OpenFile", "ChangeFile", "CloseFile", "HoverFile",
      "GetPlainGoals", "GetStatus" }

\* the kinds whose command carries a file path
PathKinds == { "OpenFile", "ChangeFile", "CloseFile", "HoverFile", "GetPlainGoals" }

NoPath == <<>>

\* the commands the callers of the file endpoints issue
FileCommands ==
    { [kind |-> k, path |-> p] : k \in {"OpenFile", "ChangeFile", "CloseFile"}, p \in Paths }

\* the commands the callers of the request endpoints issue
RequestCommands ==
    { [kind |-> k, path |-> RelPath] : k \in {"HoverFile", "GetPlainGoals"} }
        \cup { [kind |-> "Initialize", path |-> NoPath] }

\* run!: create the one-shot, send the command; the caller then waits
ClientSend(choices, max) ==
    /\ runner = "running"
    /\ Len(slots) < max
    /\ \E c \in choices :
          /\ slots' = Append(slots, [kind |-> c.kind, path |-> c.path, st |-> "waiting"])
          /\ commands' = Append(commands, [kind |-> c.kind, path |-> c.path,
                                           sender |-> Len(slots) + 1])
    /\ UNCHANGED << requests, open_file_versions, runner, next_id, inputs, outputs,
                    pump, child, stdin, answered, emitted, hub, registered, resolutions >>
    /\ UNCHANGED << hub_vars, codec_vars, set_vars, project >>

\* the commands of every kind, on one file
AllCommands ==
    { [kind |-> k, path |-> RelPath] : k \in PathKinds }
        \cup { [kind |-> k, path |-> NoPath] : k \in {"Initialize", "GetStatus"} }

\* the future awaiting receiver.await is dropped (the HTTP request it serves
\* is abandoned): the receiver half of the one-shot is dropped with it
ClientCancel ==
    /\ \E s \in DOMAIN slots :
          /\ slots[s].st = "waiting"
          /\ slots' = [slots EXCEPT ![s].st = "cancelled"]
    /\ UNCHANGED << commands, requests, open_file_versions, runner, next_id, inputs,
                    outputs, pump, child, stdin, answered, emitted, hub, registered,
                    resolutions >>
    /\ UNCHANGED << hub_vars, codec_vars, set_vars, project >>

(***************************************************************************)
(* One-shot reply slots.                                                   *)
(***************************************************************************)
\* the receiver half is still held by the caller
ReceiverAlive(sl, s) == sl[s].st = "waiting"

\* Utils::send_to_oneshot: the value reaches the caller if the receiver is
\* alive; otherwise the send fails
send_to_oneshot(sl, s, value) ==
    IF ReceiverAlive(sl, s) THEN [sl EXCEPT ![s].st = value] ELSE sl

\* dropping sender halves without sending: a waiting caller observes a
\* closed slot
DropSenders(sl, S) ==
    [s \in DOMAIN sl |->
        IF s \in S /\ sl[s].st = "waiting" THEN [sl[s] EXCEPT !.st = "closed"]
        ELSE sl[s]]

(***************************************************************************)
(* The session actor's handlers, as functions of the actor's state.  The   *)
(* actor's state is gathered in a record a; a.res is the Result of the     *)
(* handler so far ("Ok" or the error), a.budget the number of sends the    *)
(* pump's input channel still accepts during this handler (the pump is     *)
(* another task and may end while the handler runs), a.readable whether    *)
(* the file a handler reads can be read.                                   *)
(***************************************************************************)
Actor(budget) ==
    [ requests |-> requests, versions |-> open_file_versions, next_id |-> next_id,
      inputs |-> inputs, slots |-> slots, hub |-> hub, registered |-> registered,
      resolutions |-> resolutions, receivers |-> Cardinality(DOMAIN subscribers),
      res |-> "Ok", budget |-> budget, send_failed |-> FALSE, readable |-> TRUE ]

\* the ? operator: continue with F only if the Result so far is Ok
Try(a, F(_)) == IF a.res = "Ok" THEN F(a) ELSE a

\* a send that puts the message at the head of the queue
send_first(a, message) ==
    IF a.budget > 0
    THEN [a EXCEPT !.inputs = << message >> \o @, !.budget = @ - 1]
    ELSE [a EXCEPT !.res = "SendError", !.send_failed = TRUE]

\* LeanServer::send: the message is queued for the pump; fails once the
\* pump has dropped the receiving end
send(a, message) ==
    IF a.budget > 0
    THEN [a EXCEPT !.inputs = Append(@, message), !.budget = @ - 1]
    ELSE [a EXCEPT !.res = "SendError", !.send_failed = TRUE]

\* a counter that is read and left as it is
mint_stuck(a) == a

\* AtomicUsize::inc in Messages::request_with_id: the id is the counter's
\* value, and the counter moves on
mint(a) == [a EXCEPT !.next_id = @ + 1]

\* HashMap::insert: the entry for the id is set, replacing one already there
insert(table, id, request) ==
    [i \in DOMAIN table \cup {id} |-> IF i = id THEN request ELSE table[i]]

\* a table that keeps the entry it is asked to remove
remove_none(table, id) == table

\* HashMap::remove
remove(table, id) == [i \in DOMAIN table \ {id} |-> table[i]]

\* SessionRunner::send_request: register the pending entry, then send
send_request(a, message, request) ==
    send([a EXCEPT
            !.slots = IF message.id \in DOMAIN a.requests
                      THEN DropSenders(@, {a.requests[message.id].slot}) ELSE @,
            !.requests = insert(@, message.id, request),
            !.registered = Append(@, [id |-> message.id, kind |-> request.kind,
                                      slot |-> request.slot])],
         message)

NoSlot == 0

\* an initialize that sends the initialized notification with the request
initialize_eager(a, sender) ==
    Try(send_request(mint(a), request_with_id(a.next_id, "initialize", NoUri),
                     [kind |-> "Initialize", slot |-> sender]),
        LAMBDA x : send(x, initialized_notification))

\* SessionRunner::initialize
initialize(a, sender) ==
    send_request(mint(a), request_with_id(a.next_id, "initialize", NoUri),
                 [kind |-> "Initialize", slot |-> sender])

\* the k-th of the four requests of open_file, with the id minted for it
OpenRequest(a, k, id0, uri) ==
    send_request(a, request_with_id(id0 + k - 1, OpenRequestMethods[k], uri),
                 [kind |-> OpenRequestKinds[k], slot |-> NoSlot])

\* an open that does not look the path up in the open-files map
open_file_again(a, filepath) ==
    LET uri == to_uri(filepath)
        id0 == a.next_id
        a0 == mint(mint(mint(mint(a))))
        a1 == send(a0, did_open_notification(uri))
        a2 == Try(a1, LAMBDA x : OpenRequest(x, 1, id0, uri))
        a3 == Try(a2, LAMBDA x : OpenRequest(x, 2, id0, uri))
        a4 == Try(a3, LAMBDA x : OpenRequest(x, 3, id0, uri))
        a5 == Try(a4, LAMBDA x : OpenRequest(x, 4, id0, uri))
    IN  Try(a5, LAMBDA x :
              [x EXCEPT !.versions = insert(@, filepath, INITIAL_TEXT_DOCUMENT_VERSION)])

\* SessionRunner::open_file
open_file(a, filepath) ==
    IF filepath \in DOMAIN a.versions THEN [a EXCEPT !.res = "AlreadyOpen"]
    ELSE IF ~a.readable THEN [a EXCEPT !.res = "IoError"]
    ELSE
      LET uri == to_uri(filepath)
          id0 == a.next_id
          \* the five messages are built, and the four ids minted, before any send
          a0 == mint(mint(mint(mint(a))))
          a1 == send(a0, did_open_notification(uri))
          a2 == Try(a1, LAMBDA x : OpenRequest(x, 1, id0, uri))
          a3 == Try(a2, LAMBDA x : OpenRequest(x, 2, id0, uri))
          a4 == Try(a3, LAMBDA x : OpenRequest(x, 3, id0, uri))
          a5 == Try(a4, LAMBDA x : OpenRequest(x, 4, id0, uri))
      IN  Try(a5, LAMBDA x :
                [x EXCEPT !.versions = insert(@, filepath, INITIAL_TEXT_DOCUMENT_VERSION)])

\* a change that increments the version before it sends
change_file_eager(a, filepath) ==
    IF filepath \notin DOMAIN a.versions THEN [a EXCEPT !.res = "FileNotOpen"]
    ELSE send([a EXCEPT !.versions[filepath] = @ + 1],
              did_change_notification(to_uri(filepath), a.versions[filepath] + 1))

\* a change that takes a file that is not open as open at version 0
change_file_unchecked(a, filepath) ==
    LET new_version ==
          (IF filepath \in DOMAIN a.versions THEN a.versions[filepath] ELSE 0) + 1
        a1 == send(a, did_change_notification(to_uri(filepath), new_version))
    IN  Try(a1, LAMBDA x : [x EXCEPT !.versions = insert(@, filepath, new_version)])

\* SessionRunner::change_file
change_file(a, filepath) ==
    IF filepath \notin DOMAIN a.versions THEN [a EXCEPT !.res = "FileNotOpen"]
    ELSE
      LET new_version == a.versions[filepath] + 1
          a1 == send(a, did_change_notification(to_uri(filepath), new_version))
      IN  \* only increment the version if the message was successfully sent
          Try(a1, LAMBDA x : [x EXCEPT !.versions[filepath] = @ + 1])

\* a close that empties the open-files map
close_file_all(a, filepath) ==
    IF filepath \notin DOMAIN a.versions THEN [a EXCEPT !.res = "FileNotOpen"]
    ELSE
      LET a1 == send(a, did_close_notification(to_uri(filepath)))
      IN  Try(a1, LAMBDA x : [x EXCEPT !.versions = [p \in {} |-> 0]])

\* SessionRunner::close_file
close_file(a, filepath) ==
    IF filepath \notin DOMAIN a.versions THEN [a EXCEPT !.res = "FileNotOpen"]
    ELSE
      LET a1 == send(a, did_close_notification(to_uri(filepath)))
      IN  Try(a1, LAMBDA x : [x EXCEPT !.versions = remove(@, filepath)])

\* SessionRunner::hover_file
hover_file(a, sender, filepath) ==
    send_request(mint(a), request_with_id(a.next_id, "textDocument/hover", to_uri(filepath)),
                 [kind |-> "Hover", slot |-> sender])

\* SessionRunner::get_plain_goals
get_plain_goals(a, sender, filepath) ==
    send_request(mint(a), request_with_id(a.next_id, "$/lean/plainGoal", to_uri(filepath)),
                 [kind |-> "GetPlainGoals", slot |-> sender])

\* the handler's Result r is sent to the caller; the Result of that send is
\* the Result of process_command
reply(a, sender) ==
    IF ReceiverAlive(a.slots, sender)
    THEN [a EXCEPT !.slots = send_to_oneshot(@, sender, a.res), !.res = "Ok"]
    ELSE [a EXCEPT !.res = "OneshotError"]

\* SessionRunner::process_command
process_command(a, command) ==
    CASE command.kind = "Initialize" -> initialize(a, command.sender)
      [] command.kind = "OpenFile" -> reply(open_file(a, command.path), command.sender)
      [] command.kind = "ChangeFile" -> reply(change_file(a, command.path), command.sender)
      [] command.kind = "CloseFile" -> reply(close_file(a, command.path), command.sender)
      [] command.kind = "HoverFile" -> hover_file(a, command.sender, command.path)
      [] command.kind = "GetPlainGoals" -> get_plain_goals(a, command.sender, command.path)
      [] command.kind = "GetStatus" -> reply(a, command.sender)

(***************************************************************************)
(* Inbound frames.  A frame read from the child's stdout is a JSON value:  *)
(* its id, its method and its body (for a response, whether the result     *)
(* has the expected shape; for a notification, its content).               *)
(***************************************************************************)
\* an id field that does not deserialize into Id
BadId == -2

Frame(id, method, body) == [id |-> id, method |-> method, body |-> body]

\* to_value_from_value::<GetPlainGoalsResponse/HoverFileResponse>
decodes(response) == response.body = "good"

\* resolve the caller's slot with value; fails if the receiver is gone
resolve(a, id, sender, value) ==
    IF ReceiverAlive(a.slots, sender)
    THEN [a EXCEPT !.slots = send_to_oneshot(@, sender, value),
                   !.resolutions = Append(@, [id |-> id, slot |-> sender])]
    ELSE [a EXCEPT !.res = "OneshotError"]

\* a handler of responses that answers each with an initialized notification
process_response_initialized(a, id, request, response) ==
    send(a, initialized_notification)

\* a handler of the Initialize response that resolves the caller's slot and
\* leaves the initialized notification unsent
process_response_unannounced(a, id, request, response) ==
    LET done == IF request.kind = "Initialize"
                THEN resolve(a, id, request.slot, "Ok")
                ELSE a
    IN  [done EXCEPT !.slots = DropSenders(@, {request.slot})]

\* SessionRunner::process_response: the entry has already been removed from
\* the table; a sender not used is dropped at the end
process_response(a, id, request, response) ==
    LET done ==
          CASE request.kind = "Initialize" ->
                 Try(resolve(a, id, request.slot, "Ok"),
                     LAMBDA x : send(x, initialized_notification))
            [] request.kind \in {"GetPlainGoals", "Hover"} ->
                 IF decodes(response)
                 THEN resolve(a, id, request.slot, "Response")
                 ELSE [a EXCEPT !.res = "DecodeError"]
            [] request.kind \in FireAndForget -> a
    IN  [done EXCEPT !.slots = DropSenders(@, {request.slot})]

\* a broadcast whose failure for want of a receiver ends the handler
process_notification_strict(a, message) ==
    IF a.receivers = 0 THEN [a EXCEPT !.res = "SendError"]
    ELSE [a EXCEPT !.hub = Append(@, message)]

\* a broadcast that puts the notification on the channel twice
process_notification_twice(a, message) ==
    IF a.receivers = 0 THEN a ELSE [a EXCEPT !.hub = Append(Append(@, message), message)]

\* SessionRunner::process_notification: broadcast; the broadcast fails when
\* the channel has no receiver, and the failure is logged
process_notification(a, message) ==
    IF a.receivers = 0 THEN a ELSE [a EXCEPT !.hub = Append(@, message)]

\* SessionRunner::process_request: logged only
process_request(a, request) == a

\* the oldest pending entry, whatever the inbound id
lookup_oldest(table, id) == CHOOSE k \in DOMAIN table : \A j \in DOMAIN table : k <= j

\* the entry process_message takes out of the table for an inbound id
lookup(table, id) == id

\* SessionRunner::process_message
process_message(a, message) ==
    IF message.id = NoId THEN process_notification(a, message)
    ELSE IF message.id = BadId THEN [a EXCEPT !.res = "IdError"]
    ELSE IF message.id \in DOMAIN a.requests
    THEN LET key == lookup(a.requests, message.id)
         IN  process_response([a EXCEPT !.requests = remove(@, key)],
                              message.id, a.requests[key], message)
    ELSE process_request(a, message)

(***************************************************************************)
(* The session actor's run loop (SessionRunner::result): one command or    *)
(* one inbound frame is handled per iteration; an Err from a handler ends  *)
(* the loop, and the SessionRunner is dropped.                             *)
(***************************************************************************)
\* a budget no handler exhausts: the pump stays up during the handler
AllSends == 5

\* the budgets a handler may run under: none once the pump has ended;
\* a pump that spins keeps its end of the channel for good; otherwise the
\* pump stays up, or ends after b sends of this handler
Budgets ==
    IF pump = "ended" THEN {0}
    ELSE IF pump = "spinning" THEN {AllSends}
    ELSE 1 .. AllSends

\* the senders held by the actor: in queued commands and in pending entries
HeldSenders(cmds, table) ==
    { cmds[i].sender : i \in DOMAIN cmds } \cup { table[i].slot : i \in DOMAIN table }

EmptyTable == [i \in {} |-> 0]

\* the actor's state after a handler left it as a: the loop goes on if the
\* handler's Result is Ok and ends otherwise
Continue(a, cmds) ==
    /\ open_file_versions' = a.versions
    /\ next_id' = a.next_id
    /\ hub' = a.hub
    /\ registered' = a.registered
    /\ resolutions' = a.resolutions
    /\ IF a.res = "Ok"
       THEN /\ runner' = "running"
            /\ requests' = a.requests
            /\ commands' = cmds
            /\ slots' = a.slots
       ELSE /\ runner' = "ended"
            /\ requests' = EmptyTable
            /\ commands' = <<>>
            /\ slots' = DropSenders(a.slots, HeldSenders(cmds, a.requests))
    \* a send that failed on a pump that was up: the pump ended during the
    \* handler, having written some of what was queued
    /\ IF pump = "running" /\ a.send_failed
       THEN /\ pump' = "ended"
            /\ \E w \in 0 .. (IF child = "alive" THEN Len(a.inputs) ELSE 0) :
                  /\ stdin' = stdin \o SubSeq(a.inputs, 1, w)
                  /\ inputs' = SubSeq(a.inputs, w + 1, Len(a.inputs))
       ELSE /\ pump' = pump
            /\ stdin' = stdin
            /\ inputs' = a.inputs

\* whether the file of a command can be read: OpenFile reads its file
Readable(command) == IF command.kind = "OpenFile" THEN {TRUE, FALSE} ELSE {TRUE}

\* the commands branch of the select
RunnerCommand ==
    /\ runner = "running"
    /\ commands # <<>>
    /\ \E b \in Budgets, readable \in Readable(Head(commands)) :
          Continue(process_command([Actor(b) EXCEPT !.readable = readable], Head(commands)),
                   Tail(commands))
    /\ UNCHANGED << outputs, child, answered, emitted >>
    /\ UNCHANGED << hub_vars, codec_vars, set_vars, project >>

\* the lean_server.recv branch of the select, with a frame to hand over
RunnerMessage ==
    /\ runner = "running"
    /\ outputs # <<>>
    /\ \E b \in Budgets :
          Continue(process_message(Actor(b), Head(outputs)), commands)
    /\ outputs' = Tail(outputs)
    /\ UNCHANGED << child, answered, emitted >>
    /\ UNCHANGED << hub_vars, codec_vars, set_vars, project >>

\* the lean_server.recv branch once the pump has ended and its frames are
\* consumed: recv fails and the loop ends
RunnerRecvClosed ==
    /\ runner = "running"
    /\ pump = "ended"
    /\ outputs = <<>>
    /\ Continue([Actor(0) EXCEPT !.res = "ChannelClosed"], commands)
    /\ UNCHANGED << outputs, child, answered, emitted >>
    /\ UNCHANGED << hub_vars, codec_vars, set_vars, project >>


\* the handle's kill: create the one-shot, send a Kill command; the caller
\* then waits. One caller kills the session
ClientKill ==
    /\ runner = "running"
    /\ \A s \in DOMAIN slots : slots[s].kind # "Kill"
    /\ slots' = Append(slots, [kind |-> "Kill", path |-> NoPath, st |-> "waiting"])
    /\ commands' = Append(commands, [kind |-> "Kill", path |-> NoPath,
                                     sender |-> Len(slots) + 1])
    /\ UNCHANGED << requests, open_file_versions, runner, next_id, inputs, outputs,
                    pump, child, stdin, answered, emitted, hub, registered, resolutions >>
    /\ UNCHANGED << hub_vars, codec_vars, set_vars, project >>

\* the commands branch of the select with a Kill command: the subprocess is
\* terminated and the caller's slot is resolved
RunnerKill ==
    /\ runner = "running"
    /\ commands # <<>>
    /\ Head(commands).kind = "Kill"
    /\ child' = "exited"
    /\ Continue(resolve(Actor(0), NoId, Head(commands).sender, "Ok"), Tail(commands))
    /\ UNCHANGED << outputs, answered, emitted >>
    /\ UNCHANGED << hub_vars, codec_vars, set_vars, project >>

\* the commands branch of the select with a command of another kind
RunnerOther ==
    /\ commands # <<>>
    /\ Head(commands).kind # "Kill"
    /\ RunnerCommand

(***************************************************************************)
(* The subprocess pump (LeanServerProcess::run) and the child process.     *)
(***************************************************************************)
\* the inputs branch: the next queued message is framed and written to the
\* child's stdin; the write fails once the child has exited
PumpWrite ==
    /\ pump = "running"
    /\ inputs # <<>>
    /\ IF child = "alive"
       THEN /\ stdin' = Append(stdin, Head(inputs))
            /\ inputs' = Tail(inputs)
            /\ pump' = pump
       ELSE /\ pump' = "ended"
            /\ UNCHANGED << stdin, inputs >>
    /\ UNCHANGED << commands, requests, open_file_versions, runner, next_id,
                    outputs, child, answered, emitted, slots, hub, registered, resolutions >>
    /\ UNCHANGED << hub_vars, codec_vars, set_vars, project >>

\* the inputs branch once the actor is gone and the queue is drained
PumpInputsClosed ==
    /\ pump = "running"
    /\ runner = "ended"
    /\ inputs = <<>>
    /\ pump' = "ended"
    /\ UNCHANGED << commands, requests, open_file_versions, runner, next_id, inputs,
                    outputs, child, stdin, answered, emitted, slots, hub, registered, resolutions >>
    /\ UNCHANGED << hub_vars, codec_vars, set_vars, project >>

\* an error on one of the child's streams (a read or framing failure on
\* stdout, a failure or the end of stderr) ends the pump
PumpFail ==
    /\ pump = "running"
    /\ pump' = "ended"
    /\ UNCHANGED << commands, requests, open_file_versions, runner, next_id, inputs,
                    outputs, child, stdin, answered, emitted, slots, hub, registered, resolutions >>
    /\ UNCHANGED << hub_vars, codec_vars, set_vars, project >>

\* the stdout branch once the child has exited and its stdout is at its
\* end: read_buf reads no byte and next_message, which does not look at the
\* count, calls it again, for good; the pump takes no other branch
PumpStdoutEof ==
    /\ pump = "running"
    /\ child = "exited"
    /\ pump' = "spinning"
    /\ UNCHANGED << commands, requests, open_file_versions, runner, next_id, inputs,
                    outputs, child, stdin, answered, emitted, slots, hub, registered, resolutions >>
    /\ UNCHANGED << hub_vars, codec_vars, set_vars, project >>

\* the stdout branch: a frame written by the child is handed to the actor;
\* the hand-over fails once the actor is gone
PumpForward(frame) ==
    /\ pump = "running"
    /\ child = "alive"
    /\ IF runner = "running"
       THEN outputs' = Append(outputs, frame) /\ pump' = pump
       ELSE outputs' = outputs /\ pump' = "ended"
    /\ UNCHANGED << commands, requests, open_file_versions, runner, next_id, inputs,
                    child, stdin, slots, hub, registered, resolutions >>
    /\ UNCHANGED << hub_vars, codec_vars, set_vars, project >>

\* the requests the child has received
ReceivedRequests == { i \in DOMAIN stdin : stdin[i].id # NoId }

\* whether a response to the request is deserialized into a typed response
Typed(request) == request.method \in {"textDocument/hover", "$/lean/plainGoal"}

\* the child answers a request it has received and not answered yet, in any
\* order, with a result of the expected shape or not
ServerRespond ==
    \E i \in ReceivedRequests :
        /\ stdin[i].id \notin answered
        /\ \E body \in (IF Typed(stdin[i]) THEN {"good", "bad"} ELSE {"good"}) :
              PumpForward(Frame(stdin[i].id, "", body))
        /\ answered' = answered \cup {stdin[i].id}
        /\ emitted' = emitted

\* the child sends a notification
ServerNotify ==
    /\ emitted < MaxUnsolicited
    /\ PumpForward(Frame(NoId, "textDocument/publishDiagnostics", "good"))
    /\ emitted' = emitted + 1
    /\ answered' = answered

\* the child sends a request of its own with an integer id it chose (which may
\* be the id of an answered or a pending request), or a message whose id
\* is no Id
ServerRequest ==
    /\ emitted < MaxUnsolicited
    /\ \E j \in {0, BadId} : PumpForward(Frame(j, "client/registerCapability", "good"))
    /\ emitted' = emitted + 1
    /\ answered' = answered


\* the child sends a second response to a request it has already answered
ServerRespondAgain ==
    /\ emitted < MaxUnsolicited
    /\ \E id \in answered, body \in {"good", "bad"} : PumpForward(Frame(id, "", body))
    /\ emitted' = emitted + 1
    /\ answered' = answered

\* the child process exits.  The child.wait branch of the pump's select then
\* logs the exit status, and the loop goes on: the pump's state is as it was
ChildExit ==
    /\ child = "alive"
    /\ child' = "exited"
    /\ UNCHANGED << commands, requests, open_file_versions, runner, next_id, inputs,
                    outputs, pump, stdin, answered, emitted, slots, hub, registered,
                    resolutions >>
    /\ UNCHANGED << hub_vars, codec_vars, set_vars, project >>

(***************************************************************************)
(* The codec.  A byte string is the sequence of its bytes, each byte a     *)
(* one-character string; the fifteen bytes of the field name               *)
(* "Content-Length:", none of which is a space, a digit, a CR or an LF,    *)
(* are written as one element.                                             *)
(***************************************************************************)
\* b"\r\n\r\n"
SEPARATOR == << "\r", "\n", "\r", "\n" >>

DigitChars == << "0", "1", "2", "3", "4", "5", "6", "7", "8", "9" >>

\* usize::to_string: the decimal digits, most significant first
RECURSIVE to_string(_)
to_string(n) ==
    IF n < 10 THEN << DigitChars[n + 1] >>
    ELSE to_string(n \div 10) \o << DigitChars[(n % 10) + 1] >>

IsDigit(c) == \E d \in 0 .. 9 : DigitChars[d + 1] = c

digit_value(c) == CHOOSE d \in 0 .. 9 : DigitChars[d + 1] = c

\* the Err of str::parse::<usize>
ParseError == -1

RECURSIVE parse_digits(_, _)
parse_digits(digits, acc) ==
    IF digits = <<>> THEN acc
    ELSE IF ~IsDigit(Head(digits)) THEN ParseError
    ELSE parse_digits(Tail(digits), acc * 10 + digit_value(Head(digits)))

\* str::parse::<usize>: one optional "+", then one or more decimal digits
parse_usize(str) ==
    IF str = <<>> THEN ParseError
    ELSE IF Head(str) = "+"
    THEN (IF Tail(str) = <<>> THEN ParseError ELSE parse_digits(Tail(str), 0))
    ELSE parse_digits(str, 0)

None == <<>>

\* Utils::substr_interval: the interval (begin, end), zero-based and
\* half-open, of the first occurrence of query in bytes
substr_interval(bytes, query) ==
    LET n == Len(query)
        P == { i \in 0 .. (Len(bytes) - n) : SubSeq(bytes, i + 1, i + n) = query }
    IN  IF P = {} THEN None
        ELSE LET begin == CHOOSE i \in P : \A j \in P : i <= j
             IN  << begin, begin + n >>

\* a buffer left as it is
advance_none(b, n) == b

\* BytesMut::advance: drop the first n bytes
advance(b, n) == SubSeq(b, n + 1, Len(b))

\* BytesMut::split_to: the first n bytes, and the buffer without them
split_to(b, n) == [ head |-> SubSeq(b, 1, n), rest |-> SubSeq(b, n + 1, Len(b)) ]

\* LeanServerProcess::write_to_process: the bytes written for one body
write_to_process(json_byte_str) ==
    << "Content-Length:", " " >> \o to_string(Len(json_byte_str)) \o SEPARATOR
        \o json_byte_str

\* the JSON byte strings the child frames: a one-byte number; an array
\* whose whitespace is CR LF CR LF; a twelve-byte array with digits, a space
\* and CR LF CR LF
Bodies ==
    { << "7" >>,
      << "[", "\r", "\n", "\r", "\n", "]" >>,
      << "[", "1", ",", " ", "2", ",", "\r", "\n", "\r", "\n", "3", "]" >> }

\* the child frames a body as write_to_process does and writes it to stdout
ChildWriteFrame ==
    /\ Len(written) < MaxFrames
    /\ \E body \in Bodies :
          /\ wire' = wire \o write_to_process(body)
          /\ written' = Append(written, body)
    /\ UNCHANGED << buf, phase, content_length, decoded >>
    /\ UNCHANGED << session_vars, hub_vars, set_vars, project >>


\* a second field of the header part, as the base protocol allows
ContentType == << "Content-Type:", " ", "application/vscode-jsonrpc" >>

\* a frame whose header part holds Content-Length and Content-Type, in
\* either order, each field ended by CR LF and the part by an empty line
write_with_headers(json_byte_str, length_first) ==
    LET length == << "Content-Length:", " " >> \o to_string(Len(json_byte_str))
        fields == IF length_first
                  THEN length \o << "\r", "\n" >> \o ContentType
                  ELSE ContentType \o << "\r", "\n" >> \o length
    IN  fields \o SEPARATOR \o json_byte_str

\* the child writes to stdout a frame with both header fields
ChildWriteFrameWithHeaders ==
    /\ Len(written) < MaxFrames
    /\ \E body \in Bodies, length_first \in BOOLEAN :
          /\ wire' = wire \o write_with_headers(body, length_first)
          /\ written' = Append(written, body)
    /\ UNCHANGED << buf, phase, content_length, decoded >>
    /\ UNCHANGED << session_vars, hub_vars, set_vars, project >>


\* what stands in written for a frame whose header part is malformed
Malformed == << "malformed" >>

\* the child writes a frame whose header part is not a Content-Length
\* field with a number: the field has no space after its colon, or its
\* value is no number, or it is a field of another name with a number
ChildWriteMalformed ==
    /\ Len(written) < MaxFrames
    /\ \E body \in Bodies :
          \E header \in { << "Content-Length:" >> \o to_string(Len(body)),
                          << "Content-Length:", " ", "x" >>,
                          << "Content-Type:", " " >> \o to_string(Len(body)) } :
              wire' = wire \o header \o SEPARATOR \o body
    /\ written' = Append(written, Malformed)
    /\ UNCHANGED << buf, phase, content_length, decoded >>
    /\ UNCHANGED << session_vars, hub_vars, set_vars, project >>

\* the pump's select polls a new next_message future
NextMessageCall ==
    /\ phase = "idle"
    /\ phase' = "header"
    /\ UNCHANGED << wire, buf, content_length, written, decoded >>
    /\ UNCHANGED << session_vars, hub_vars, set_vars, project >>

\* next_message is at a read_buf: in the first loop with no separator in
\* buf, or in the second with fewer than content_length bytes in buf
AtRead ==
    \/ phase = "header" /\ substr_interval(buf, SEPARATOR) = None
    \/ phase = "body" /\ Len(buf) < content_length

\* read_buf: some of the bytes available, at least one, are appended to buf
NextMessageRead ==
    /\ AtRead
    /\ \E k \in 1 .. Len(wire) :
          /\ buf' = buf \o SubSeq(wire, 1, k)
          /\ wire' = SubSeq(wire, k + 1, Len(wire))
    /\ UNCHANGED << phase, content_length, written, decoded >>
    /\ UNCHANGED << session_vars, hub_vars, set_vars, project >>

\* the first loop with a separator in buf: the header is parsed and skipped
NextMessageHeader ==
    /\ phase = "header"
    /\ substr_interval(buf, SEPARATOR) # None
    /\ LET separator == substr_interval(buf, SEPARATOR)
           space == substr_interval(SubSeq(buf, 1, separator[1]), << " " >>)
           length == IF space = None THEN ParseError
                     ELSE parse_usize(SubSeq(buf, space[2] + 1, separator[1]))
       IN  IF space = None \/ length = ParseError
           THEN /\ phase' = "failed"
                /\ UNCHANGED << buf, content_length >>
           ELSE /\ phase' = "body"
                /\ content_length' = length
                /\ buf' = advance(buf, separator[2])
    /\ UNCHANGED << wire, written, decoded >>
    /\ UNCHANGED << session_vars, hub_vars, set_vars, project >>

\* the second loop is over: the body is popped from buf and returned
NextMessageReturn ==
    /\ phase = "body"
    /\ Len(buf) >= content_length
    /\ decoded' = Append(decoded, split_to(buf, content_length).head)
    /\ buf' = split_to(buf, content_length).rest
    /\ phase' = "idle"
    /\ content_length' = 0
    /\ UNCHANGED << wire, written >>
    /\ UNCHANGED << session_vars, hub_vars, set_vars, project >>


\* another branch of the pump's select completes while next_message waits
\* in read_buf for bytes of the child (the bytes of wire that no read has
\* taken had not reached the pipe when read_buf was polled): the select
\* drops the next_message future and with it the content_length it had
\* parsed; buf, a field of the decoder, stays as the future left it
NextMessageCancel ==
    /\ AtRead
    /\ phase' = "idle"
    /\ content_length' = 0
    /\ UNCHANGED << wire, buf, written, decoded >>
    /\ UNCHANGED << session_vars, hub_vars, set_vars, project >>

InitCodec ==
    /\ wire = <<>>
    /\ buf = <<>>
    /\ phase = "idle"
    /\ content_length = 0
    /\ written = <<>>
    /\ decoded = <<>>

(***************************************************************************)
(* The notifications hub: a broadcast channel.  hub is everything the      *)
(* channel accepted; the channel retains its last NotificationsCapacity    *)
(* values.  A receiver holds the number of values it is past.  The k-th    *)
(* notification the child sends has body k.                                *)
(***************************************************************************)
NotificationsCapacity == 32

\* what a receiver's stream yields: a notification, or the Lagged marker
\* with the number of notifications missed
Received(message) == [ok |-> TRUE, missed |-> 0, value |-> message]

Lagged(n) == [ok |-> FALSE, missed |-> n, value |-> Frame(NoId, "", 0)]

\* Sender::subscribe: the new receiver starts after the newest value
HubSubscribe ==
    /\ Len(subscribers) < MaxSubscribers
    /\ subscribers' = Append(subscribers,
                             [from |-> published, next |-> Len(hub), got |-> <<>>])
    /\ UNCHANGED << published >>
    /\ UNCHANGED << session_vars, codec_vars, set_vars, project >>

\* the child sends its next notification, and the actor handles it
HubNotify ==
    /\ published < MaxNotifications
    /\ LET message == Frame(NoId, "textDocument/publishDiagnostics", published + 1)
       IN  hub' = process_message(Actor(AllSends), message).hub
    /\ published' = published + 1
    /\ UNCHANGED << subscribers >>
    /\ UNCHANGED << commands, requests, open_file_versions, runner, next_id, inputs,
                    outputs, pump, child, stdin, answered, emitted, slots, registered,
                    resolutions >>
    /\ UNCHANGED << codec_vars, set_vars, project >>

\* Receiver::recv with a value to yield: the next value if the channel
\* still retains it; otherwise Lagged, and the receiver moves to the oldest
\* value retained
HubRecv ==
    \E s \in DOMAIN subscribers :
        LET r == subscribers[s]
            oldest == Len(hub) - NotificationsCapacity
        IN  /\ r.next < Len(hub)
            /\ subscribers' =
                  [subscribers EXCEPT ![s] =
                      IF r.next < oldest
                      THEN [r EXCEPT !.next = oldest,
                                     !.got = Append(@, Lagged(oldest - r.next))]
                      ELSE [r EXCEPT !.next = @ + 1,
                                     !.got = Append(@, Received(hub[r.next + 1]))]]
            /\ UNCHANGED << published >>
            /\ UNCHANGED << session_vars, codec_vars, set_vars, project >>

InitHub ==
    /\ subscribers = <<>>
    /\ published = 0


\* the methods of the child's notifications that a consumer may name, and
\* the method of a message that has no method field
Methods == { "textDocument/publishDiagnostics", "$/lean/fileProgress" }

NoMethod == ""

\* a filter that keeps every item
keeps_all(methods, item) == TRUE

\* Server::notifications, the predicate of filter_sync: an item of the
\* stream is dropped when the set of methods is not empty, the item is a
\* notification and not an error of the receiver, it has a method, and the
\* method is not in the set; it is kept otherwise
keeps(methods, item) ==
    ~ (/\ methods # {}
       /\ item.ok
       /\ item.value.method # NoMethod
       /\ item.value.method \notin methods)

\* GET /session/notifications: the handler subscribes to the session's
\* notifications and filters the stream by the methods of the query
NotificationsRequest ==
    /\ Len(subscribers) < MaxSubscribers
    /\ \E methods \in SUBSET Methods :
          subscribers' = Append(subscribers,
                                [from |-> published, next |-> Len(hub), got |-> <<>>,
                                 methods |-> methods, forwarded |-> <<>>])
    /\ UNCHANGED << published >>
    /\ UNCHANGED << session_vars, codec_vars, set_vars, project >>

\* the child sends a notification of some method, or a message with neither
\* id nor method, and the actor handles it
FilterNotify ==
    /\ published < MaxFiltered
    /\ \E method \in Methods \cup {NoMethod} :
          hub' = process_message(Actor(AllSends),
                                 Frame(NoId, method, published + 1)).hub
    /\ published' = published + 1
    /\ UNCHANGED << subscribers >>
    /\ UNCHANGED << commands, requests, open_file_versions, runner, next_id, inputs,
                    outputs, pump, child, stdin, answered, emitted, slots, registered,
                    resolutions >>
    /\ UNCHANGED << codec_vars, set_vars, project >>

\* the body stream of the response is polled: the receiver yields its next
\* item, which is forwarded to the consumer if the filter keeps it
FilterRecv ==
    \E s \in DOMAIN subscribers :
        LET r == subscribers[s]
            oldest == Len(hub) - NotificationsCapacity
            item == IF r.next < oldest THEN Lagged(oldest - r.next)
                    ELSE Received(hub[r.next + 1])
        IN  /\ r.next < Len(hub)
            /\ subscribers' =
                  [subscribers EXCEPT ![s] =
                      [r EXCEPT !.next = IF r.next < oldest THEN oldest ELSE @ + 1,
                                !.got = Append(@, item),
                                !.forwarded = IF keeps(r.methods, item)
                                              THEN Append(@, item) ELSE @]]
            /\ UNCHANGED << published >>
            /\ UNCHANGED << session_vars, codec_vars, set_vars, project >>

(***************************************************************************)
(* The session set (SessionSetRunner).  A session is known by its id; its  *)
(* handle is written as its id.  The run task of a session is "running",   *)
(* has "returned" its SessionResult, has "panicked", was "aborted", or     *)
(* its end has been "joined" by the set's run loop.                        *)
(***************************************************************************)
\* Option::None for a session id
NoSession == 0

SessionIds == 1 .. MaxSessions

\* the Results sent back to the callers of the set
OkHandle(id) == [st |-> "Ok", handle |-> id, handles |-> {}, error |-> ""]

OkHandles(ids) == [st |-> "Ok", handle |-> NoSession, handles |-> ids, error |-> ""]

Failure(error) == [st |-> "Err", handle |-> NoSession, handles |-> {}, error |-> error]

SetCommands ==
    { [kind |-> "NewSession", session_id |-> NoSession],
      [kind |-> "GetSessions", session_id |-> NoSession] }
        \cup { [kind |-> "GetSession", session_id |-> i] : i \in {NoSession} \cup SessionIds }

\* run!: create the one-shot, send the command; the caller then waits
SetClientSend ==
    /\ set_runner = "running"
    /\ Len(set_slots) < MaxSetCommands
    /\ \E c \in SetCommands :
          /\ set_slots' = Append(set_slots,
                                 [kind |-> c.kind, session_id |-> c.session_id,
                                  st |-> "waiting", handle |-> NoSession,
                                  handles |-> {}, error |-> ""])
          /\ set_commands' = Append(set_commands,
                                    [kind |-> c.kind, session_id |-> c.session_id,
                                     sender |-> Len(set_slots) + 1])
    /\ UNCHANGED << sessions, session_results, set_runner >>
    /\ UNCHANGED << session_vars, hub_vars, codec_vars, project >>

\* the state of the set actor, with the Result of the handler so far
SetActor ==
    [ sessions |-> sessions, session_results |-> session_results,
      result |-> Failure("") ]


\* a new_session that lists the session and spawns its run task before it
\* knows whether the session could be created
new_session_always(S, created) ==
    LET id == Cardinality(DOMAIN S.session_results) + 1
    IN  [S EXCEPT !.sessions = @ \cup {id},
                  !.session_results =
                      [i \in DOMAIN @ \cup {id} |-> IF i = id THEN "running" ELSE @[i]],
                  !.result = IF created THEN OkHandle(id) ELSE Failure("SessionNew")]

\* a new_session that keeps no clone of the handle in the dictionary
new_session_unlisted(S, created) ==
    IF ~created THEN [S EXCEPT !.result = Failure("SessionNew")]
    ELSE LET id == Cardinality(DOMAIN S.session_results) + 1
         IN  [S EXCEPT !.session_results =
                           [i \in DOMAIN @ \cup {id} |-> IF i = id THEN "running" ELSE @[i]],
                       !.result = OkHandle(id)]

\* SessionSetRunner::new_session; created tells whether Session::new succeeded
new_session(S, created) ==
    IF ~created THEN [S EXCEPT !.result = Failure("SessionNew")]
    ELSE LET id == Cardinality(DOMAIN S.session_results) + 1
         IN  [S EXCEPT !.sessions = @ \cup {id},
                       !.session_results =
                           [i \in DOMAIN @ \cup {id} |-> IF i = id THEN "running" ELSE @[i]],
                       !.result = OkHandle(id)]

\* SessionSetRunner::get_sessions
get_sessions(S) == [S EXCEPT !.result = OkHandles(S.sessions)]

\* a lookup that answers with some session whenever there is one
get_session_any(table, session_id) ==
    IF session_id # NoSession
    THEN (IF session_id \in table THEN OkHandle(session_id) ELSE Failure("NotFound"))
    ELSE IF table # {} THEN OkHandle(CHOOSE id \in table : TRUE)
    ELSE Failure("AmbiguousSession")

\* a lookup that falls back on the only session when the id is not known
get_session_fallback(table, session_id) ==
    IF session_id # NoSession /\ session_id \in table THEN OkHandle(session_id)
    ELSE IF Cardinality(table) = 1 THEN OkHandle(CHOOSE id \in table : TRUE)
    ELSE Failure(IF session_id # NoSession THEN "NotFound" ELSE "AmbiguousSession")

\* SessionSetRunner::get_session
get_session(table, session_id) ==
    IF session_id # NoSession
    THEN (IF session_id \in table THEN OkHandle(session_id) ELSE Failure("NotFound"))
    ELSE IF Cardinality(table) = 1 THEN OkHandle(CHOOSE id \in table : TRUE)
    ELSE Failure("AmbiguousSession")

\* send_to_oneshot of a Result of the set
set_reply(sl, s, result) ==
    IF sl[s].st = "waiting"
    THEN [sl EXCEPT ![s].st = result.st, ![s].handle = result.handle,
                    ![s].handles = result.handles, ![s].error = result.error]
    ELSE sl

\* SessionSetRunner::process_command: the handler's state, yet to be replied
set_process_command(S, command, created) ==
    CASE command.kind = "NewSession" -> new_session(S, created)
      [] command.kind = "GetSessions" -> get_sessions(S)
      [] command.kind = "GetSession" ->
            [S EXCEPT !.result = get_session(S.sessions, command.session_id)]

\* a cleanup that leaves the dictionary as it is
cleanup_session_none(table, id) == table

\* SessionSetRunner::cleanup_session
cleanup_session(table, id) == table \ {id}

\* the commands branch of the set's select; an error of the handler is logged
SetRunnerCommand ==
    /\ set_runner = "running"
    /\ set_commands # <<>>
    /\ \E created \in (IF /\ Head(set_commands).kind = "NewSession"
                          /\ Cardinality(DOMAIN session_results) < MaxSessions
                       THEN {TRUE, FALSE} ELSE {FALSE}) :
          LET S == set_process_command(SetActor, Head(set_commands), created)
          IN  /\ sessions' = S.sessions
              /\ session_results' = S.session_results
              /\ set_slots' = set_reply(set_slots, Head(set_commands).sender, S.result)
    /\ set_commands' = Tail(set_commands)
    /\ UNCHANGED << set_runner >>
    /\ UNCHANGED << session_vars, hub_vars, codec_vars, project >>

\* a session's run task ends: run returns its SessionResult (the run loop
\* ended on an error: the child's streams, the encoder, a kill), or the
\* task fails abnormally
SessionRunEnds ==
    \E id \in DOMAIN session_results :
        /\ session_results[id] = "running"
        /\ \E how \in {"returned", "panicked"} :
              session_results' = [session_results EXCEPT ![id] = how]
        /\ UNCHANGED << sessions, set_commands, set_slots, set_runner >>
        /\ UNCHANGED << session_vars, hub_vars, codec_vars, project >>

\* the join_next branch of the set's select, with a task that has ended
SetJoinNext ==
    /\ set_runner = "running"
    /\ \E id \in DOMAIN session_results :
          /\ session_results[id] \in {"returned", "panicked"}
          /\ sessions' = IF session_results[id] = "returned"
                         THEN cleanup_session(sessions, id)
                         ELSE sessions
          /\ session_results' = [session_results EXCEPT ![id] = "joined"]
    /\ UNCHANGED << set_commands, set_slots, set_runner >>
    /\ UNCHANGED << session_vars, hub_vars, codec_vars, project >>

\* every handle of the set is dropped: the commands branch yields an error,
\* run returns, and the JoinSet dropped with it aborts the tasks still running
SetHandlesDropped ==
    /\ set_runner = "running"
    /\ set_commands = <<>>
    /\ set_runner' = "ended"
    /\ session_results' =
          [id \in DOMAIN session_results |->
              IF session_results[id] = "running" THEN "aborted" ELSE session_results[id]]
    /\ UNCHANGED << sessions, set_commands, set_slots >>
    /\ UNCHANGED << session_vars, hub_vars, codec_vars, project >>



\* Session::status: run! with GetStatus; the send of the command fails once
\* the session's run loop has ended and dropped the channel's receiver
status(results, id) == IF results[id] = "running" THEN "Ok" ELSE "Err"

\* Server::session_set_status and Server::get_sessions, after get_sessions
\* has answered with the handles: the status of every handle, and
\* try_join_all, which is the first error if there is one and the statuses
\* otherwise, one per handle
session_set_status(results, handles) ==
    IF \E id \in handles : status(results, id) = "Err"
    THEN Failure("Status")
    ELSE [ st |-> "Listed", handle |-> NoSession, handles |-> handles, error |-> "" ]

\* GET /status and GET /session: the handler, answered by GetSessions,
\* asks every session for its status
SessionSetStatus ==
    /\ \E s \in DOMAIN set_slots :
          /\ set_slots[s].kind = "GetSessions"
          /\ set_slots[s].st = "Ok"
          /\ LET listing == session_set_status(session_results, set_slots[s].handles)
             IN  set_slots' = [set_slots EXCEPT ![s].st = listing.st,
                                                ![s].handles = listing.handles,
                                                ![s].error = listing.error]
    /\ UNCHANGED << sessions, session_results, set_commands, set_runner >>
    /\ UNCHANGED << session_vars, hub_vars, codec_vars, project >>

\* the caller's slot s holds a clone of the handle of session id
Holds(s, id) ==
    /\ set_slots[s].st = "Ok"
    /\ set_slots[s].handle = id \/ id \in set_slots[s].handles

\* the clones of the handle of session id: the dictionary's and the callers'.
\* Each is a sender of the session's command channel, which is closed (the
\* run loop's commands branch yields an error) only when there is none
Senders(id) ==
    (IF id \in sessions THEN 1 ELSE 0)
        + Cardinality({ s \in DOMAIN set_slots : Holds(s, id) })

\* a caller drops the handles it was handed: the handle has no Drop of its
\* own, so only its sender of the command channel goes
SessionHandleDrop ==
    /\ \E s \in DOMAIN set_slots :
          /\ set_slots[s].st = "Ok"
          /\ set_slots' = [set_slots EXCEPT ![s].st = "dropped"]
    /\ UNCHANGED << sessions, session_results, set_commands, set_runner >>
    /\ UNCHANGED << session_vars, hub_vars, codec_vars, project >>

InitSet ==
    /\ sessions = {}
    /\ session_results = EmptyTable
    /\ set_commands = <<>>
    /\ set_slots = <<>>
    /\ set_runner = "running"

(***************************************************************************)
(* The project directory of a new session.  A path is absolute and written *)
(* as the sequence of its components: the root is the empty sequence.  The *)
(* file system is the set of the regular files there are.                  *)
(***************************************************************************)
MANIFEST_FILE_NAME == "lake-manifest.json"

\* the names of the directories and files, and the paths of at most
\* MaxDepth components
Names == {"a", "b"}

LeanPaths == UNION { [1 .. n -> Names] : n \in 0 .. MaxDepth }

\* the Result of a resolution that found no manifest; no session was asked for
NoManifest == [ok |-> FALSE, path |-> <<>>]

Unresolved == [lean_path |-> <<>>, is_dir |-> TRUE, files |-> {}, result |-> NoManifest]

\* Path::ancestors: the path, then its parent, and so on up to the root
ancestors(path) == [i \in 1 .. Len(path) + 1 |-> SubSeq(path, 1, Len(path) + 1 - i)]

\* Path::with_file_name: the last component is replaced by the name; the
\* root has no last component, and the name is added to it
with_file_name(path, file_name) ==
    IF path = <<>> THEN << file_name >>
    ELSE Append(SubSeq(path, 1, Len(path) - 1), file_name)

\* SessionRunner::project_dirpath: the first ancestor whose manifest path is
\* a regular file gives the directory of that manifest path (pop)
project_dirpath(files, lean_path) ==
    LET manifest_filepath(i) == with_file_name(ancestors(lean_path)[i], MANIFEST_FILE_NAME)
        found == { i \in DOMAIN ancestors(lean_path) : manifest_filepath(i) \in files }
    IN  IF found = {} THEN NoManifest
        ELSE LET i == CHOOSE i \in found : \A j \in found : i <= j
             IN  [ok |-> TRUE,
                  path |-> SubSeq(manifest_filepath(i), 1, Len(manifest_filepath(i)) - 1)]

\* SessionRunner::new up to the resolution of the project directory, for a
\* lean_path that is a directory or a regular file, in a file system whose
\* manifests lie in directories: not in or below a regular file; a
\* behaviour holds one resolution
SessionRunnerNew ==
    /\ project = Unresolved
    /\ \E lean_path \in LeanPaths, is_dir \in BOOLEAN, manifests \in SUBSET LeanPaths :
          /\ is_dir \/ lean_path # <<>>
          /\ is_dir \/ \A d \in manifests :
                          ~ (Len(d) >= Len(lean_path) /\ SubSeq(d, 1, Len(lean_path)) = lean_path)
          /\ LET files == { Append(d, MANIFEST_FILE_NAME) : d \in manifests }
             IN  project' = [lean_path |-> lean_path, is_dir |-> is_dir, files |-> files,
                             result |-> project_dirpath(files, lean_path)]
    /\ UNCHANGED << session_vars, hub_vars, codec_vars, set_vars >>


(***************************************************************************)
(* The session: one actor, its pump and child, and its callers.            *)
(***************************************************************************)
InitSession ==
    /\ commands = <<>>
    /\ requests = EmptyTable
    /\ open_file_versions = EmptyTable
    /\ runner = "running"
    /\ next_id = 0
    /\ inputs = <<>>
    /\ outputs = <<>>
    /\ pump = "running"
    /\ child = "alive"
    /\ stdin = <<>>
    /\ answered = {}
    /\ emitted = 0
    /\ slots = <<>>
    /\ hub = <<>>
    /\ registered = <<>>
    /\ resolutions = <<>>

Init == InitSession /\ InitHub /\ InitCodec /\ InitSet /\ project = Unresolved

\* a session serving the request endpoints
Next ==
    \/ ClientSend(RequestCommands, MaxRequestCommands)
    \/ RunnerCommand
    \/ RunnerMessage
    \/ RunnerRecvClosed
    \/ PumpWrite
    \/ PumpInputsClosed
    \/ PumpFail
    \/ PumpStdoutEof
    \/ ServerRespond
    \/ ChildExit

Spec == Init /\ [][Next]_vars

\* a session serving the file endpoints, its child silent.  The handlers of
\* the file commands hand their error to the caller, so the actor ends only
\* after the pump has: the pump never finds its input channel closed
NextFiles ==
    \/ ClientSend(FileCommands, MaxFileCommands)
    \/ RunnerCommand
    \/ RunnerRecvClosed
    \/ PumpWrite
    \/ PumpFail
    \/ PumpStdoutEof
    \/ ChildExit

SpecFiles == Init /\ [][NextFiles]_vars

\* the same, its callers naming every file by its absolute path
CanonicalFileCommands == { c \in FileCommands : c.path = absolute(c.path) }

NextFilesCanonical ==
    \/ ClientSend(CanonicalFileCommands, MaxFileCommands)
    \/ RunnerCommand
    \/ RunnerRecvClosed
    \/ PumpWrite
    \/ PumpFail
    \/ PumpStdoutEof
    \/ ChildExit

SpecFilesCanonical == Init /\ [][NextFilesCanonical]_vars


\* a session serving the file endpoints whose child sends notifications,
\* with no consumer subscribed
SpecNotify == Init /\ [][NextFilesCanonical \/ ServerNotify \/ RunnerMessage]_vars


\* a session serving two commands of the file endpoints, whose child answers
\* the requests that follow a didOpen
SpecAnswers ==
    Init /\ [][ \/ ClientSend(CanonicalFileCommands, MaxEndCommands)
                \/ RunnerCommand
                \/ RunnerMessage
                \/ RunnerRecvClosed
                \/ PumpWrite
                \/ PumpFail
                \/ ServerRespond ]_vars

\* a session whose callers may abandon the command they issued
NextCancel ==
    \/ ClientSend(AllCommands, MaxCancelCommands)
    \/ ClientCancel
    \/ RunnerCommand
    \/ RunnerMessage
    \/ RunnerRecvClosed
    \/ PumpWrite
    \/ PumpInputsClosed
    \/ PumpFail
    \/ ServerRespond

SpecCancel == Init /\ [][NextCancel]_vars

\* the same session, its child also sending notifications and requests of
\* its own
NextInbound ==
    \/ ClientSend(RequestCommands, MaxRequestCommands)
    \/ RunnerCommand
    \/ RunnerMessage
    \/ RunnerRecvClosed
    \/ PumpWrite
    \/ PumpInputsClosed
    \/ PumpFail
    \/ PumpStdoutEof
    \/ ServerRespond
    \/ ServerNotify
    \/ ServerRequest
    \/ ChildExit

SpecInbound == Init /\ [][NextInbound]_vars


\* the same session, its child answering a request a second time
NextDuplicate ==
    \/ ClientSend(RequestCommands, MaxRequestCommands)
    \/ RunnerCommand
    \/ RunnerMessage
    \/ RunnerRecvClosed
    \/ PumpWrite
    \/ PumpInputsClosed
    \/ PumpFail
    \/ PumpStdoutEof
    \/ ServerRespond
    \/ ServerRespondAgain
    \/ ChildExit

SpecDuplicate == Init /\ [][NextDuplicate]_vars

\* the codec reading what the child writes
NextCodec ==
    \/ ChildWriteFrame
    \/ NextMessageCall
    \/ NextMessageRead
    \/ NextMessageHeader
    \/ NextMessageReturn

SpecCodec == Init /\ [][NextCodec]_vars


\* the codec with a child that also writes frames with a second header field
NextHeaders ==
    \/ ChildWriteFrame
    \/ ChildWriteFrameWithHeaders
    \/ NextMessageCall
    \/ NextMessageRead
    \/ NextMessageHeader
    \/ NextMessageReturn

SpecHeaders == Init /\ [][NextHeaders]_vars


\* the codec with a child that also writes frames with a malformed header
SpecMalformed == Init /\ [][NextCodec \/ ChildWriteMalformed]_vars


\* the codec in the pump's select, whose other branches complete between
\* the reads of a frame
SpecInterleaved == Init /\ [][NextCodec \/ NextMessageCancel]_vars

\* the hub, its subscribers and the child's notifications
NextHub ==
    \/ HubSubscribe
    \/ HubNotify
    \/ HubRecv

SpecHub == Init /\ [][NextHub]_vars


\* the notifications streams of the gateway, filtered by method
NextFilter ==
    \/ NotificationsRequest
    \/ FilterNotify
    \/ FilterRecv

SpecFilter == Init /\ [][NextFilter]_vars

\* the session set, its callers and the run tasks of its sessions
NextSet ==
    \/ SetClientSend
    \/ SetRunnerCommand
    \/ SessionRunEnds
    \/ SetJoinNext
    \/ SetHandlesDropped

SpecSet == Init /\ [][NextSet]_vars


\* the session set with callers that list the statuses of the sessions
SpecStatus == Init /\ [][NextSet \/ SessionSetStatus]_vars

\* the resolutions of the project directory of new sessions
SpecProject == Init /\ [][SessionRunnerNew]_vars


\* the session set with callers that drop the handles they were handed
NextHandles ==
    \/ SetClientSend
    \/ SetRunnerCommand
    \/ SessionRunEnds
    \/ SetJoinNext
    \/ SetHandlesDropped
    \/ SessionHandleDrop

SpecHandles == Init /\ [][NextHandles]_vars

\* the same session under the scheduling of its tasks: the run loop takes a
\* branch of its select that stays ready, the pump writes what is queued,
\* the child answers the requests it has received, and once the child has
\* exited the pump's select takes the branch of one of its streams: the
\* stderr branch, which ends the pump, or the stdout branch
PumpStreamsEnd == child = "exited" /\ PumpFail

Fairness ==
    /\ WF_vars(RunnerCommand)
    /\ WF_vars(RunnerMessage)
    /\ WF_vars(RunnerRecvClosed)
    /\ WF_vars(PumpWrite)
    /\ WF_vars(PumpInputsClosed)
    /\ WF_vars(ServerRespond)
    /\ WF_vars(PumpStreamsEnd \/ PumpStdoutEof)

SpecLive == Init /\ [][Next]_vars /\ Fairness

\* SessionRunner::run: once result has returned, the run task returns the
\* SessionResult with the session's id to the join set
SessionRunReturns ==
    /\ runner = "ended"
    /\ \E id \in DOMAIN session_results :
          /\ session_results[id] = "running"
          /\ session_results' = [session_results EXCEPT ![id] = "returned"]
    /\ UNCHANGED << sessions, set_commands, set_slots, set_runner >>
    /\ UNCHANGED << session_vars, hub_vars, codec_vars, project >>

\* the set has spawned the session's run task
Started == DOMAIN session_results # {}

\* a session set that is asked for one session, and that session with its
\* pump, its child and its callers; the set's handle is held by the server
\* for as long as the process lives
NextEnd ==
    \/ set_slots = <<>> /\ SetClientSend
    \/ SetRunnerCommand
    \/ SetJoinNext
    \/ SessionRunReturns
    \/ Started /\ ClientSend(RequestCommands, MaxEndCommands)
    \/ Started /\ RunnerCommand
    \/ Started /\ RunnerMessage
    \/ Started /\ RunnerRecvClosed
    \/ Started /\ PumpWrite
    \/ Started /\ PumpInputsClosed
    \/ Started /\ PumpFail
    \/ Started /\ PumpStdoutEof
    \/ Started /\ ServerRespond
    \/ Started /\ ChildExit

\* the scheduling of the tasks: each run loop takes a branch of its select
\* that stays ready, and a task that can return does
FairnessEnd ==
    /\ WF_vars(SetRunnerCommand)
    /\ WF_vars(SetJoinNext)
    /\ WF_vars(SessionRunReturns)
    /\ WF_vars(Started /\ RunnerCommand)
    /\ WF_vars(Started /\ RunnerMessage)
    /\ WF_vars(Started /\ RunnerRecvClosed)
    /\ WF_vars(Started /\ PumpWrite)

SpecEnd == Init /\ [][NextEnd]_vars /\ FairnessEnd


\* the session of the model is the first that the set creates
First == 1

Created == First \in DOMAIN session_results

\* SessionRunner::run of the first session: once result has returned, the
\* task returns its SessionResult to the join set
FirstRunReturns ==
    /\ runner = "ended"
    /\ Created
    /\ session_results[First] = "running"
    /\ session_results' = [session_results EXCEPT ![First] = "returned"]
    /\ UNCHANGED << sessions, set_commands, set_slots, set_runner >>
    /\ UNCHANGED << session_vars, hub_vars, codec_vars, project >>

\* a session set of up to two sessions, the first of them with its pump,
\* its child and its callers, one of which kills it
NextKill ==
    \/ Len(set_slots) < 2 /\ SetClientSend
    \/ SetRunnerCommand
    \/ SetJoinNext
    \/ FirstRunReturns
    \/ Created /\ ClientSend(RequestCommands, 1)
    \/ Created /\ ClientKill
    \/ Created /\ RunnerOther
    \/ Created /\ RunnerKill
    \/ Created /\ RunnerMessage
    \/ Created /\ RunnerRecvClosed
    \/ Created /\ PumpWrite
    \/ Created /\ PumpFail
    \/ Created /\ PumpStdoutEof
    \/ Created /\ ServerRespond

\* the scheduling of the tasks: each run loop takes a branch of its select
\* that stays ready, a task that can return does, and once the child has
\* exited the pump's select takes the branch of one of its streams
FairnessKill ==
    /\ WF_vars(SetRunnerCommand)
    /\ WF_vars(SetJoinNext)
    /\ WF_vars(FirstRunReturns)
    /\ WF_vars(Created /\ RunnerOther)
    /\ WF_vars(Created /\ RunnerKill)
    /\ WF_vars(Created /\ RunnerMessage)
    /\ WF_vars(Created /\ RunnerRecvClosed)
    /\ WF_vars(Created /\ PumpWrite)
    /\ WF_vars(Created /\ (PumpStreamsEnd \/ PumpStdoutEof))

SpecKill == Init /\ [][NextKill]_vars /\ FairnessKill

(***************************************************************************)
(* Properties of the session actor.                                        *)
(***************************************************************************)
\* the method of the request a command of a kind sends
MethodOf(kind) ==
    CASE kind = "Initialize" -> "initialize"
      [] kind = "HoverFile" -> "textDocument/hover"
      [] kind = "GetPlainGoals" -> "$/lean/plainGoal"

\* the slot is resolved with the outcome of a response
Resolved(s) == slots[s].st \in {"Ok", "Response"}

\* C1: a response whose id is the id of request R resolves the reply slot
\* registered for R and no other caller's slot: every slot resolved by a
\* response was registered under the id of that response, the child
\* answered that id, the request the session sent under that id is the one
\* of the slot's command, and a resolved slot was resolved by one response.
C1_RequestCorrelation ==
    /\ \A k \in DOMAIN resolutions :
          LET id == resolutions[k].id
              s == resolutions[k].slot
          IN  /\ \E r \in DOMAIN registered :
                    registered[r].id = id /\ registered[r].slot = s
              /\ id \in answered
              /\ \E i \in DOMAIN stdin :
                    stdin[i].id = id /\ stdin[i].method = MethodOf(slots[s].kind)
              /\ Resolved(s)
    /\ \A s \in DOMAIN slots :
          Resolved(s) => Cardinality({ k \in DOMAIN resolutions : resolutions[k].slot = s }) = 1

\* two requests were in flight together and their responses were handled in
\* the reverse of the order the requests were sent in
C1_Witness ==
    \E k1, k2 \in DOMAIN resolutions :
        /\ k1 < k2
        /\ resolutions[k1].id > resolutions[k2].id
        /\ resolutions[k1].slot # resolutions[k2].slot

\* C2: every Initialize, GetPlainGoals or HoverFile command issued to the
\* session leads to its own slot being resolved or to the session having
\* terminated with the slot closed; a slot is resolved by at most one
\* response; once the run loop has ended no caller is left waiting.
C2_PendingBalance ==
    /\ \A s \in 1 .. MaxRequestCommands :
          (s \in DOMAIN slots)
              ~> (s \in DOMAIN slots
                    /\ (Resolved(s) \/ (runner = "ended" /\ slots[s].st = "closed")))
    /\ [](\A s \in DOMAIN slots :
            Cardinality({ k \in DOMAIN resolutions : resolutions[k].slot = s }) <= 1)
    /\ [](runner = "ended" => \A s \in DOMAIN slots : slots[s].st # "waiting")

(***************************************************************************)
(* Properties of what the child receives.                                  *)
(***************************************************************************)
DocumentMethods ==
    { "textDocument/didOpen", "textDocument/didChange", "textDocument/didClose" }

\* the last document notification for the uri of the i-th message that the
\* child received before it; 0 if there is none
Previous(i) ==
    LET P == { j \in 1 .. (i - 1) :
                 stdin[j].uri = stdin[i].uri /\ stdin[j].method \in DocumentMethods }
    IN  IF P = {} THEN 0 ELSE CHOOSE j \in P : \A k \in P : k <= j

\* C3: the versions of the didChange messages written between a didOpen of
\* a file and the next didClose are 1, 2, 3, ...: a didChange that follows
\* the didOpen carries 1, and a didChange that follows a didChange carries
\* that one's version plus 1.
C3_VersionMonotonicity ==
    \A i \in DOMAIN stdin :
        stdin[i].method = "textDocument/didChange" =>
            LET p == Previous(i)
            IN  /\ p # 0
                /\ \/ stdin[p].method = "textDocument/didOpen" /\ stdin[i].version = 1
                   \/ /\ stdin[p].method = "textDocument/didChange"
                      /\ stdin[i].version = stdin[p].version + 1

\* C4: a didClose for a file is written only when a didOpen for it was
\* written before and the file has not been closed since.
C4_OpenCloseMirror ==
    \A i \in DOMAIN stdin :
        stdin[i].method = "textDocument/didClose" =>
            /\ Previous(i) # 0
            /\ stdin[Previous(i)].method # "textDocument/didClose"

\* the five messages of an OpenFile, in the order of the claim
OpenSequence ==
    << "textDocument/didOpen", "textDocument/documentSymbol", "textDocument/codeAction",
       "textDocument/foldingRange", "$/lean/rpc/connect" >>

\* everything the actor has sent to the pump: what the child has received,
\* then what is still queued
Sent == stdin \o inputs

\* C5: the messages sent after a didOpen are the four requests in the order
\* documentSymbol, codeAction, foldingRange, rpc/connect, with the uri of
\* the didOpen, whatever commands were queued; each OpenFile that succeeded
\* has sent its five; the child receives what was sent in the order it was
\* sent in.
C5_OrderingOnOpen ==
    /\ \A i \in DOMAIN Sent :
          Sent[i].method = OpenSequence[1] =>
              \A k \in 1 .. 4 :
                  i + k <= Len(Sent) =>
                      /\ Sent[i + k].method = OpenSequence[k + 1]
                      /\ Sent[i + k].uri = Sent[i].uri
    /\ Cardinality({ i \in DOMAIN Sent :
                       Sent[i].method = OpenSequence[1] /\ i + 4 <= Len(Sent) })
          = Cardinality({ s \in DOMAIN slots :
                            slots[s].kind = "OpenFile" /\ slots[s].st = "Ok" })
    /\ stdin = SubSeq(Sent, 1, Len(stdin))

\* the child has received the five messages of an OpenFile that succeeded
\* while another command was waiting in the command channel
C5_Witness ==
    /\ \E s \in DOMAIN slots : slots[s].kind = "OpenFile" /\ slots[s].st = "Ok"
    /\ Len(stdin) >= 5
    /\ stdin[5].method = "$/lean/rpc/connect"
    /\ \E i \in DOMAIN commands : commands[i].sender = 2
    /\ slots[1].kind = "OpenFile"

\* C6: no request id is inserted into the pending-request table twice.
C6_RequestIdUniqueness ==
    \A i, j \in DOMAIN registered :
        i # j => registered[i].id # registered[j].id

\* two OpenFile commands have registered their eight requests
C6_Witness == Len(registered) >= 8

(***************************************************************************)
(* Properties of the session set.                                          *)
(***************************************************************************)
\* the set's run loop handles the command at the head of its channel
SetHandles(kind) ==
    /\ set_runner = "running"
    /\ set_commands # <<>>
    /\ Head(set_commands).kind = kind
    /\ set_commands' = Tail(set_commands)

\* C7: GetSession with no session id answers with the handle of the single
\* session when the dictionary holds exactly one session, and with
\* AmbiguousSession when it holds none or more than one; the dictionary is
\* left as it was.
C7_ImplicitSession ==
    [][ (SetHandles("GetSession") /\ Head(set_commands).session_id = NoSession) =>
            LET answer == set_slots'[Head(set_commands).sender]
            IN  /\ sessions' = sessions
                /\ IF Cardinality(sessions) = 1
                   THEN answer.st = "Ok" /\ sessions = {answer.handle}
                   ELSE answer.st = "Err" /\ answer.error = "AmbiguousSession" ]_vars

\* GetSession with no session id has been answered twice: with the handle
\* of the only session, and, once a second session was created, with
\* AmbiguousSession
C7_Witness ==
    /\ Cardinality(sessions) = 2
    /\ \E s, t \in DOMAIN set_slots :
          /\ s < t
          /\ \A x \in {s, t} :
                set_slots[x].kind = "GetSession" /\ set_slots[x].session_id = NoSession
          /\ set_slots[s].st = "Ok" /\ set_slots[s].handle \in sessions
          /\ set_slots[t].st = "Err" /\ set_slots[t].error = "AmbiguousSession"

\* C10: a session whose run task has ended, and whose end the set's run loop
\* has taken from the join set, is no longer in the dictionary.
C10_Reaping ==
    \A id \in DOMAIN session_results :
        session_results[id] = "joined" => id \notin sessions

(***************************************************************************)
(* Properties of the notifications hub.                                    *)
(***************************************************************************)
\* the number of the notification received as the i-th item of a stream
Number(got, i) == got[i].value.body

\* the notifications of a stream, its Lagged markers left out
Notifications(got) == SelectSeq(got, LAMBDA x : x.ok)

\* a receiver has nothing left to receive
Drained(r) == r.next = Len(hub)

\* C8: what a subscriber has received is, in broadcast order and without a
\* duplicate, either the notifications broadcast since it subscribed, all
\* of them once it has nothing left to receive, or stretches of them each
\* begun by a Lagged marker, the last stretch ending with the newest
\* notification once it has nothing left to receive; a notification is
\* missing only where a Lagged marker stands.
C8_FanOutFidelity ==
    \A s \in DOMAIN subscribers :
        LET r == subscribers[s]
            got == r.got
            seen == Notifications(got)
        IN  /\ \A i \in DOMAIN seen :
                  seen[i].value.body \in (r.from + 1) .. published
            /\ \A i \in 2 .. Len(seen) :
                  seen[i - 1].value.body < seen[i].value.body
            /\ \A i \in DOMAIN got :
                  (i > 1 /\ got[i].ok /\ got[i - 1].ok) =>
                      Number(got, i) = Number(got, i - 1) + 1
            /\ (got # <<>> /\ got[1].ok) => Number(got, 1) = r.from + 1
            /\ (Drained(r) /\ published > r.from) =>
                  /\ got # <<>>
                  /\ got[Len(got)].ok
                  /\ Number(got, Len(got)) = published
            /\ \A i \in DOMAIN got : ~got[i].ok => got[i].missed > 0

\* of two subscribers with nothing left to receive, one has received every
\* notification in order and the other a Lagged marker and then the
\* notifications from the oldest retained to the newest
C8_Witness ==
    /\ published = MaxNotifications
    /\ \E s, t \in DOMAIN subscribers :
          LET a == subscribers[s]
              b == subscribers[t]
          IN  /\ Drained(a) /\ Drained(b)
              /\ a.from = 0 /\ Len(a.got) = published
              /\ \A i \in DOMAIN a.got : a.got[i].ok
              /\ b.from = 0
              /\ ~b.got[1].ok
              /\ Len(b.got) = NotificationsCapacity + 1
              /\ \A i \in 2 .. Len(b.got) : b.got[i].ok

(***************************************************************************)
(* Properties of the codec.                                                *)
(***************************************************************************)
\* the bytes of the frames of a sequence of bodies
RECURSIVE Encoded(_)
Encoded(bodies) ==
    IF bodies = <<>> THEN <<>>
    ELSE write_to_process(Head(bodies)) \o Encoded(Tail(bodies))

\* C9: the bodies next_message has returned are the first of the bodies
\* that were framed, in order; between two frames the bytes read and not
\* returned, followed by the bytes not yet read, are the frames still to
\* be returned; the header of a frame is never rejected; once every byte is
\* read and next_message waits for more, every body has been returned.
C9_CodecRoundTrip ==
    /\ phase # "failed"
    /\ Len(decoded) <= Len(written)
    /\ decoded = SubSeq(written, 1, Len(decoded))
    /\ phase \in {"idle", "header"} =>
          buf \o wire = Encoded(SubSeq(written, Len(decoded) + 1, Len(written)))
    /\ (phase = "header" /\ wire = <<>> /\ substr_interval(buf, SEPARATOR) = None) =>
          (decoded = written /\ buf = <<>>)

\* three frames were written; a call has returned the second body, which
\* holds CR LF CR LF, out of a read that also brought the whole third frame,
\* a body of two-digit length, now held in buf
C9_Witness ==
    /\ Len(written) = 3
    /\ Len(decoded) = 2
    /\ phase = "idle"
    /\ wire = <<>>
    /\ buf = write_to_process(written[3])
    /\ substr_interval(decoded[2], SEPARATOR) # None
    /\ Len(written[3]) >= 10

(***************************************************************************)
(* Properties of the handling of commands.                                 *)
(***************************************************************************)
\* the run loop hands the Result of a command to a caller that has dropped
\* its receiver
RepliesToCancelled ==
    /\ commands # <<>>
    /\ Head(commands).kind \in {"OpenFile", "ChangeFile", "CloseFile", "GetStatus"}
    /\ slots[Head(commands).sender].st = "cancelled"
    /\ RunnerCommand

\* the run loop handles the response to the request of a caller that has
\* dropped its receiver
AnswersCancelled ==
    /\ outputs # <<>>
    /\ Head(outputs).id \in DOMAIN requests
    /\ LET request == requests[Head(outputs).id]
       IN  /\ request.slot # NoSlot
           /\ slots[request.slot].st = "cancelled"
           /\ request.kind = "Initialize" \/ decodes(Head(outputs))
    /\ RunnerMessage

\* C11: when the actor resolves the slot of a caller that has dropped its
\* receiver, the run loop keeps running, no waiting caller finds its slot
\* closed, the pending entries of the other requests stay, and a response
\* so discarded leaves the open-files map as it was.
C11_CancellationBenign ==
    [][ (RepliesToCancelled \/ AnswersCancelled) =>
            /\ runner' = "running"
            /\ \A s \in DOMAIN slots : slots[s].st = "waiting" => slots'[s].st = "waiting"
            /\ \A i \in DOMAIN requests :
                  (outputs = <<>> \/ i # Head(outputs).id) =>
                      (i \in DOMAIN requests' /\ requests'[i] = requests[i])
            /\ AnswersCancelled => open_file_versions' = open_file_versions ]_vars


\* the state the handler of a command leaves, its Result not yet handed to
\* the caller or to the run loop
Handled(a, command) ==
    CASE command.kind = "Initialize" -> initialize(a, command.sender)
      [] command.kind = "OpenFile" -> open_file(a, command.path)
      [] command.kind = "ChangeFile" -> change_file(a, command.path)
      [] command.kind = "CloseFile" -> close_file(a, command.path)
      [] command.kind = "HoverFile" -> hover_file(a, command.sender, command.path)
      [] command.kind = "GetPlainGoals" -> get_plain_goals(a, command.sender, command.path)
      [] command.kind = "GetStatus" -> a

\* the run loop handles the command at the head of the channel, the pump
\* accepting b sends and the file being readable or not
Handles(b, readable) ==
    /\ runner = "running"
    /\ commands # <<>>
    /\ b \in Budgets
    /\ readable \in Readable(Head(commands))
    /\ Continue(process_command([Actor(b) EXCEPT !.readable = readable], Head(commands)),
                Tail(commands))
    /\ outputs' = outputs

\* C12: an error raised by the handler of a command whose caller is waiting
\* is what that caller finds in its reply slot.
C12_ErrorPropagation ==
    [][ \A b \in 0 .. AllSends, readable \in BOOLEAN :
          LET command == Head(commands)
              result == Handled([Actor(b) EXCEPT !.readable = readable], command).res
          IN  ( /\ Handles(b, readable)
                /\ ReceiverAlive(slots, command.sender)
                /\ result # "Ok" )
                  => slots'[command.sender].st = result ]_vars


(***************************************************************************)
(* Properties of the open-files map.  A file is known to the map by the    *)
(* path its commands name it by.                                           *)
(***************************************************************************)
Closed == -1

\* the state of a file in a map: Closed, or the version it is open at
FileState(versions, path) == IF path \in DOMAIN versions THEN versions[path] ELSE Closed

\* the run loop handles a command of the kind on the path and answers Ok
Succeeds(kind, path) ==
    /\ runner = "running"
    /\ commands # <<>>
    /\ Head(commands).kind = kind
    /\ Head(commands).path = path
    /\ commands' = Tail(commands)
    /\ slots[Head(commands).sender].st = "waiting"
    /\ slots'[Head(commands).sender].st = "Ok"

\* C13: the state of a file changes only from Closed to Open(0) by an
\* OpenFile on it that succeeds, from Open(v) to Open(v+1) by a ChangeFile
\* on it that succeeds, and from Open(v) to Closed by a CloseFile on it
\* that succeeds; a command that succeeds makes its transition; the
\* versions are never below 0.
C13_FileStateMachine ==
    [][ \A path \in Paths :
          LET before == FileState(open_file_versions, path)
              after == FileState(open_file_versions', path)
          IN  /\ after >= Closed
              /\ after # before =>
                    \/ before = Closed /\ after = INITIAL_TEXT_DOCUMENT_VERSION
                                       /\ Succeeds("OpenFile", path)
                    \/ before # Closed /\ after = before + 1 /\ Succeeds("ChangeFile", path)
                    \/ before # Closed /\ after = Closed /\ Succeeds("CloseFile", path)
              /\ Succeeds("OpenFile", path) =>
                    before = Closed /\ after = INITIAL_TEXT_DOCUMENT_VERSION
              /\ Succeeds("ChangeFile", path) => before # Closed /\ after = before + 1
              /\ Succeeds("CloseFile", path) => before # Closed /\ after = Closed ]_vars

\* a file was opened, changed, closed and opened again, and is at version 0
C13_Witness ==
    /\ Len(slots) = 4
    /\ \A s \in DOMAIN slots : slots[s].st = "Ok"
    /\ \E path \in Paths :
          /\ << slots[1].kind, slots[2].kind, slots[3].kind, slots[4].kind >>
                = << "OpenFile", "ChangeFile", "CloseFile", "OpenFile" >>
          /\ \A s \in DOMAIN slots : slots[s].path = path
          /\ FileState(open_file_versions, path) = INITIAL_TEXT_DOCUMENT_VERSION


\* the run loop handles a ChangeFile or CloseFile on a path that is not in
\* the open-files map
HandlesNotOpen ==
    /\ commands # <<>>
    /\ Head(commands).kind \in {"ChangeFile", "CloseFile"}
    /\ Head(commands).path \notin DOMAIN open_file_versions
    /\ RunnerCommand

\* C14: a ChangeFile or CloseFile on a path that is not in the open-files
\* map answers FileNotOpen to its caller, sends nothing to the subprocess,
\* and leaves the open-files map and the pending-request table as they
\* were; the run loop goes on.
C14_FileNotOpen ==
    [][ HandlesNotOpen =>
            /\ slots'[Head(commands).sender].st = "FileNotOpen"
            /\ inputs' = inputs
            /\ stdin' = stdin
            /\ open_file_versions' = open_file_versions
            /\ requests' = requests
            /\ runner' = "running" ]_vars

\* with a file open and its four requests pending, a ChangeFile and a
\* CloseFile on a path that is not open have answered FileNotOpen
C14_Witness ==
    /\ open_file_versions # EmptyTable
    /\ Cardinality(DOMAIN requests) = 4
    /\ \E s, t \in DOMAIN slots :
          /\ slots[s].kind = "ChangeFile" /\ slots[s].st = "FileNotOpen"
          /\ slots[t].kind = "CloseFile" /\ slots[t].st = "FileNotOpen"


\* the run loop handles an OpenFile on a path that is in the open-files map
HandlesAlreadyOpen ==
    /\ commands # <<>>
    /\ Head(commands).kind = "OpenFile"
    /\ Head(commands).path \in DOMAIN open_file_versions
    /\ RunnerCommand

\* C15: an OpenFile on a path that is in the open-files map answers
\* AlreadyOpen to its caller, sends none of the five messages, mints no id
\* and registers no pending entry, and leaves the open-files map, the
\* version of the file with it, as it was.
C15_AlreadyOpen ==
    [][ HandlesAlreadyOpen =>
            /\ slots'[Head(commands).sender].st = "AlreadyOpen"
            /\ inputs' = inputs
            /\ stdin' = stdin
            /\ requests' = requests
            /\ registered' = registered
            /\ next_id' = next_id
            /\ open_file_versions' = open_file_versions
            /\ runner' = "running" ]_vars

\* an OpenFile on a file open at version 1 has answered AlreadyOpen, and
\* the file is still at version 1
C15_Witness ==
    \E s \in DOMAIN slots :
        /\ slots[s].kind = "OpenFile"
        /\ slots[s].st = "AlreadyOpen"
        /\ slots[s].path \in DOMAIN open_file_versions
        /\ open_file_versions[slots[s].path] = 1


\* the run loop handles a file command, and a send of its handler fails
SendFails ==
    /\ commands # <<>>
    /\ Head(commands).kind \in {"OpenFile", "ChangeFile", "CloseFile"}
    /\ RunnerCommand
    /\ slots'[Head(commands).sender].st = "SendError"

\* C16: when a send of OpenFile, ChangeFile or CloseFile fails, the
\* open-files map is left as it was: the path is not inserted, the version
\* not incremented, the entry not removed.
C16_CommitAfterSend ==
    [][ SendFails => open_file_versions' = open_file_versions ]_vars

\* with one file open at version 0, an OpenFile of the other path failed
\* after some of its sends, and a ChangeFile and a CloseFile of the open
\* file failed on their send: the map holds the open file at version 0 only
C16_Witness ==
    /\ Len(slots) = 4
    /\ << slots[1].kind, slots[2].kind, slots[3].kind, slots[4].kind >>
          = << "OpenFile", "OpenFile", "ChangeFile", "CloseFile" >>
    /\ << slots[1].st, slots[2].st, slots[3].st, slots[4].st >>
          = << "Ok", "SendError", "SendError", "SendError" >>
    /\ slots[3].path = slots[1].path /\ slots[4].path = slots[1].path
    /\ Len(Sent) > 5
    /\ DOMAIN open_file_versions = {slots[1].path}
    /\ open_file_versions[slots[1].path] = INITIAL_TEXT_DOCUMENT_VERSION


(***************************************************************************)
(* Properties of the initialize handshake.                                 *)
(***************************************************************************)
\* the places of the initialized notifications in a sequence of messages
Initialized(seq) == { i \in DOMAIN seq : seq[i] = initialized_notification }

\* the places before place i of the initialize requests the child has answered
AnsweredInitialize(seq, i) ==
    { j \in 1 .. (i - 1) : seq[j].method = "initialize" /\ seq[j].id \in answered }

\* the run loop handles the response to a pending initialize request
HandlesInitializeResponse ==
    /\ outputs # <<>>
    /\ Head(outputs).id \in DOMAIN requests
    /\ requests[Head(outputs).id].kind = "Initialize"
    /\ RunnerMessage

HandlesNotification ==
    /\ outputs # <<>>
    /\ Head(outputs).id = NoId
    /\ RunnerMessage

\* the run loop handles a request of the child: a frame with a method and
\* an integer id the child chose
HandlesServerRequest ==
    /\ outputs # <<>>
    /\ Head(outputs).method # ""
    /\ Head(outputs).id \notin {NoId, BadId}
    /\ RunnerMessage

\* C18: handling a frame with no id touches no pending entry and no reply
\* slot and sends nothing; handling a request of the child removes and
\* resolves no pending entry, sends nothing to the subprocess, and
\* broadcasts nothing; the run loop goes on.
C18_InboundRouting ==
    [][ (HandlesNotification \/ HandlesServerRequest) =>
            /\ requests' = requests
            /\ slots' = slots
            /\ resolutions' = resolutions
            /\ inputs' = inputs
            /\ stdin' = stdin
            /\ runner' = "running"
            /\ HandlesServerRequest => hub' = hub ]_vars


(***************************************************************************)
(* Properties of the end of a session.                                     *)
(***************************************************************************)
\* C19: once the child process has exited, the pump ends and the session's
\* run loop ends after it.
C19_PumpExit == (child = "exited") ~> (pump = "ended" /\ runner = "ended")


\* C20: once the pump has ended it stays ended, the session's run loop ends
\* as well, and the session set removes the session from its dictionary.
C20_PumpFailurePropagation ==
    /\ [][pump = "ended" => pump' = "ended"]_vars
    /\ (Started /\ pump = "ended") ~> (runner = "ended" /\ sessions = {})

\* a stream of the child failed while the child was alive and a caller was
\* waiting for a response; the caller found its slot closed, and the
\* session has been removed from the dictionary
C20_Witness ==
    /\ pump = "ended"
    /\ child = "alive"
    /\ runner = "ended"
    /\ \E s \in DOMAIN slots : slots[s].st = "closed"
    /\ \E s \in DOMAIN slots : slots[s].st = "Ok"
    /\ \E id \in DOMAIN session_results : session_results[id] = "joined"
    /\ sessions = {}


\* C21: the decoder honors only the Content-Length field: whatever other
\* fields the header part of a frame holds, next_message does not fail on
\* it, and the bodies it returns are the bodies written, in order, each of
\* exactly its Content-Length bytes.
C21_ContentLengthOnly ==
    /\ phase # "failed"
    /\ Len(decoded) <= Len(written)
    /\ \A i \in 1 .. Len(decoded) : decoded[i] = written[i]


\* a step in which a caller drops a handle
HandleDropped ==
    \E s \in DOMAIN set_slots :
        set_slots[s].st = "Ok" /\ set_slots'[s].st = "dropped"

C23_ExplicitSession ==
    [][ (SetHandles("GetSession") /\ Head(set_commands).session_id # NoSession
            /\ set_slots[Head(set_commands).sender].st = "waiting") =>
            LET id == Head(set_commands).session_id
                answer == set_slots'[Head(set_commands).sender]
            IN  /\ sessions' = sessions
                /\ session_results' = session_results
                /\ set_runner' = "running"
                /\ IF id \in sessions
                   THEN answer.st = "Ok" /\ answer.handle = id
                   ELSE answer.st = "Err" /\ answer.error = "NotFound" ]_vars

\* GetSession was answered with an error for the id of a reaped session and
\* with the handle for the id of a session in the dictionary, and the set's
\* run loop is running
C23_Witness ==
    /\ set_runner = "running"
    /\ \E s, t \in DOMAIN set_slots :
          /\ \A x \in {s, t} :
                set_slots[x].kind = "GetSession" /\ set_slots[x].session_id # NoSession
          /\ set_slots[s].st = "Err" /\ set_slots[s].error = "NotFound"
          /\ set_slots[s].session_id \in DOMAIN session_results
          /\ session_results[set_slots[s].session_id] = "joined"
          /\ set_slots[s].session_id \notin sessions
          /\ set_slots[t].st = "Ok" /\ set_slots[t].handle = set_slots[t].session_id
          /\ set_slots[t].handle \in sessions


\* C24: a NewSession command that fails, for want of a manifest file or
\* because the child could not be spawned, is answered with the error on
\* its reply slot; it adds no session to the dictionary and spawns no run
\* task, and the set's run loop goes on. One that succeeds is answered with
\* the handle of a session that is new to the dictionary and to the tasks.
C24_NewSessionFailure ==
    [][ (SetHandles("NewSession")
            /\ set_slots[Head(set_commands).sender].st = "waiting") =>
            LET answer == set_slots'[Head(set_commands).sender]
            IN  /\ set_runner' = "running"
                /\ answer.st \in {"Ok", "Err"}
                /\ answer.st = "Err" =>
                      /\ answer.error = "SessionNew"
                      /\ sessions' = sessions
                      /\ session_results' = session_results
                /\ answer.st = "Ok" =>
                      /\ answer.handle \notin DOMAIN session_results
                      /\ sessions' = sessions \cup {answer.handle}
                      /\ session_results'[answer.handle] = "running" ]_vars

\* a NewSession has failed, and the set's run loop has handled a later
\* NewSession, whose session is the only one there is
C24_Witness ==
    /\ set_runner = "running"
    /\ \E s, t \in DOMAIN set_slots :
          /\ s < t
          /\ set_slots[s].kind = "NewSession" /\ set_slots[s].st = "Err"
          /\ set_slots[t].kind = "NewSession" /\ set_slots[t].st = "Ok"
          /\ sessions = {set_slots[t].handle}
          /\ DOMAIN session_results = sessions


\* the notifications that the claim has forwarded to a consumer that named
\* the set of methods: all of them when the set is empty, and otherwise
\* those whose method is in the set
Named(methods, item) ==
    methods = {} \/ item.value.method \in methods

\* C25: on a notifications stream with a non-empty set of methods, a
\* notification that has a method is forwarded if and only if its method is
\* in the set; with an empty set every notification is forwarded. What is
\* forwarded keeps the order in which it was received. (A message with
\* neither id nor method is forwarded whatever the set.)
C25_NotificationsFilter ==
    \A s \in DOMAIN subscribers :
        LET r == subscribers[s]
        IN  r.forwarded =
                SelectSeq(r.got,
                          LAMBDA item : \/ Named(r.methods, item)
                                        \/ item.value.method = NoMethod)

\* one consumer named one method and, having received a notification of
\* that method and one of the other, was forwarded the first only; another
\* consumer named no method and was forwarded both
C25_Witness ==
    \E s, t \in DOMAIN subscribers :
        LET a == subscribers[s]
            b == subscribers[t]
        IN  /\ Cardinality(a.methods) = 1
            /\ b.methods = {}
            /\ Len(a.got) = 2 /\ b.got = a.got
            /\ \E i, j \in DOMAIN a.got :
                  /\ a.got[i].value.method \in a.methods
                  /\ a.got[j].value.method \in Methods \ a.methods
                  /\ a.forwarded = << a.got[i] >>
            /\ b.forwarded = b.got


\* the run loop handles a response to a pending GetPlainGoals or HoverFile
\* request that is not of the shape expected, with the caller waiting
HandlesUndecodable ==
    /\ outputs # <<>>
    /\ Head(outputs).id \in DOMAIN requests
    /\ requests[Head(outputs).id].kind \in {"GetPlainGoals", "Hover"}
    /\ ~decodes(Head(outputs))
    /\ ReceiverAlive(slots, requests[Head(outputs).id].slot)
    /\ RunnerMessage

\* C26: when the child's response to a pending GetPlainGoals or HoverFile
\* request does not match the expected shape, the caller waiting on that
\* request receives the decode error on its reply slot.
C26_DecodeErrors ==
    [][ HandlesUndecodable =>
            slots'[requests[Head(outputs).id].slot].st = "DecodeError" ]_vars


\* the Kill caller's slot has been resolved
Killed == \E s \in DOMAIN slots : slots[s].kind = "Kill" /\ slots[s].st = "Ok"

\* C27: the step that handles a Kill command terminates the session's
\* subprocess and resolves the slot of the caller that waits; after it the
\* session's run task ends and the session is removed from the dictionary;
\* and no step of the killed session removes another session from the
\* dictionary or ends its run task.
C27_Kill ==
    /\ [][ (Created /\ RunnerKill /\ ReceiverAlive(slots, Head(commands).sender)) =>
              child' = "exited" /\ slots'[Head(commands).sender].st = "Ok" ]_vars
    /\ Killed ~> (runner = "ended" /\ session_results[First] = "joined"
                    /\ First \notin sessions)
    /\ [][ \A id \in DOMAIN session_results \ {First} :
              /\ session_results'[id] = session_results[id]
              /\ id \in sessions => id \in sessions' ]_vars


\* the run loop handles a frame that carries the id of a pending entry
HandlesPending ==
    /\ outputs # <<>>
    /\ Head(outputs).id \in DOMAIN requests
    /\ RunnerMessage

\* the run loop handles a frame that carries an id with no pending entry
HandlesNotPending ==
    /\ outputs # <<>>
    /\ Head(outputs).id \notin DOMAIN requests \cup {NoId, BadId}
    /\ RunnerMessage

\* C28: the step that handles the first response carrying the id of a
\* pending entry removes the entry; a later frame carrying the same id finds
\* no entry, and the step that handles it resolves no slot and changes
\* nothing of the table; so no slot and no entry is resolved twice, and a
\* slot once resolved stays as it was resolved.
C28_AtMostOnce ==
    /\ [](\A j, k \in DOMAIN resolutions :
              j # k => /\ resolutions[j].slot # resolutions[k].slot
                       /\ resolutions[j].id # resolutions[k].id)
    /\ [][ HandlesPending => Head(outputs).id \notin DOMAIN requests' ]_vars
    /\ [][ HandlesNotPending =>
              /\ requests' = requests
              /\ slots' = slots
              /\ resolutions' = resolutions ]_vars
    /\ [][ \A s \in DOMAIN slots : Resolved(s) => slots'[s] = slots[s] ]_vars

\* the child answered one request twice; the first response resolved the
\* caller's slot, the second has been handled, and the run loop goes on
C28_Witness ==
    /\ runner = "running"
    /\ emitted = 1
    /\ outputs = <<>>
    /\ Cardinality(answered) = 1
    /\ \E k \in DOMAIN resolutions :
          resolutions[k].id \in answered /\ Resolved(resolutions[k].slot)


\* the run tasks that were spawned and whose completion the set's run loop
\* has not processed
Unprocessed ==
    { id \in DOMAIN session_results :
        session_results[id] \in {"running", "returned", "panicked"} }

\* C29: while the session set's run loop runs, the ids in the dictionary
\* are the ids of the run tasks that were spawned and whose completion has
\* not been processed; once the completion of a task is processed, its
\* session is not in the dictionary.
C29_SessionSetInvariant ==
    set_runner = "running" => sessions = Unprocessed


\* sequence t is sequence s with more at its end, or s itself
Extends(t, s) == Len(s) <= Len(t) /\ SubSeq(t, 1, Len(s)) = s

\* the most messages a session sends: a request and an initialized
\* notification for each command
MostSent == 2 * MaxRequestCommands

\* C30: what the pump has written to the child's stdin is at every moment
\* the beginning of what the actor has sent, in the order the actor sent it:
\* a step only adds to the end of what was sent and to the end of what was
\* written, so nothing is written twice, out of order or left out; the
\* requests are sent in the order their ids were minted in, which is the
\* order the commands were handled in; and whatever was sent is written
\* for as long as the pump goes on running.
C30_WriteOrder ==
    /\ [][ Extends(Sent', Sent) /\ Extends(stdin', stdin) ]_vars
    /\ [](\A i, j \in DOMAIN Sent :
              (i < j /\ Sent[i].id # NoId /\ Sent[j].id # NoId) => Sent[i].id < Sent[j].id)
    /\ \A n \in 1 .. MostSent :
          (Len(Sent) >= n) ~> (Len(stdin) >= n \/ pump # "running")

\* the pump has written an initialize request, the initialized notification
\* that its response produced and the request of a later command, and is
\* running
C30_Witness ==
    /\ pump = "running"
    /\ Len(stdin) >= 3
    /\ \E i, j, k \in DOMAIN stdin :
          /\ i < j /\ j < k
          /\ stdin[i].method = "initialize"
          /\ stdin[j] = initialized_notification
          /\ stdin[k].id > stdin[i].id


\* C31: the decoder fails on a frame whose header part is not a
\* Content-Length field with a non-negative integer, a field of another
\* name included: it returns the bodies of the well-formed frames written
\* before such a frame and no body after them.
C31_MalformedFrame ==
    /\ Len(decoded) <= Len(written)
    /\ \A i \in 1 .. Len(decoded) : decoded[i] = written[i]


\* C32: when the pump's stdout branch reads at the end of the child's
\* stdout with no complete frame buffered, next_message fails and the pump
\* ends with it (from where the session ends and is reaped, C20); the pump
\* is never left reading at the end of the stream.
C32_StreamEnded ==
    /\ [][ PumpStdoutEof => pump' = "ended" ]_vars
    /\ [](pump # "spinning")


\* C33: handling a notification of the child while the hub has no
\* subscriber leaves the run loop running and changes nothing of the
\* pending-request table, of the open-files map, of the reply slots or of
\* what is sent to the child; the notification is dropped.
C33_BroadcastBenign ==
    [][ (HandlesNotification /\ subscribers = <<>>) =>
            /\ runner' = "running"
            /\ requests' = requests
            /\ open_file_versions' = open_file_versions
            /\ slots' = slots
            /\ inputs' = inputs
            /\ hub' = hub ]_vars

\* a notification has been handled with no subscriber, a file being open
\* and its requests pending, and the run loop is running
C33_Witness ==
    /\ emitted = 1
    /\ outputs = <<>>
    /\ subscribers = <<>>
    /\ runner = "running"
    /\ DOMAIN open_file_versions # {}
    /\ DOMAIN requests # {}


\* the run loop handles the response to a pending request that has no caller
HandlesFireAndForget ==
    /\ outputs # <<>>
    /\ Head(outputs).id \in DOMAIN requests
    /\ requests[Head(outputs).id].kind \in FireAndForget
    /\ RunnerMessage

\* C34: handling the response to a documentSymbol, codeAction, foldingRange
\* or rpc/connect request removes the pending entry of that request and no
\* other, resolves no reply slot, sends nothing to the subprocess and leaves
\* the open-files map as it was; the run loop goes on.
C34_FireAndForget ==
    [][ HandlesFireAndForget =>
            /\ DOMAIN requests' = DOMAIN requests \ {Head(outputs).id}
            /\ \A id \in DOMAIN requests' : requests'[id] = requests[id]
            /\ slots' = slots
            /\ resolutions' = resolutions
            /\ inputs' = inputs
            /\ stdin' = stdin
            /\ open_file_versions' = open_file_versions
            /\ runner' = "running" ]_vars

\* the four requests that followed a didOpen have been answered and the
\* responses handled: no entry is pending, no slot was resolved by a
\* response, and the file is open
C34_Witness ==
    /\ Cardinality(answered) = 4
    /\ outputs = <<>>
    /\ runner = "running"
    /\ DOMAIN requests = {}
    /\ resolutions = <<>>
    /\ DOMAIN open_file_versions # {}


\* C35: when the bytes of a frame arrive over several reads and other
\* branches of the pump's select complete between the reads, the decoder
\* does not fail, and the bodies it returns are the bodies written, in
\* order, each of them whole.
C35_FrameIntegrity ==
    /\ phase # "failed"
    /\ Len(decoded) <= Len(written)
    /\ \A i \in 1 .. Len(decoded) : decoded[i] = written[i]
    /\ (wire = <<>> /\ buf = <<>> /\ phase = "idle") => decoded = written


\* C36: for every document URI, a didOpen the child receives is the first
\* document notification for that URI or follows a didClose for it: there
\* are never two didOpen for one URI with no didClose between them,
\* whatever spellings of the path the OpenFile commands use.
C36_SingleDidOpen ==
    \A i \in DOMAIN stdin :
        stdin[i].method = "textDocument/didOpen" =>
            \/ Previous(i) = 0
            \/ stdin[Previous(i)].method = "textDocument/didClose"

\* a caller of Initialize has observed its reply
InitializeResolved ==
    \E s \in DOMAIN slots : slots[s].kind = "Initialize" /\ slots[s].st = "Ok"

\* C37: once a caller can observe its Initialize reply, the initialized
\* notification has been sent to the pump: every step that sends a message
\* when an Initialize reply is resolved, which the steps handling the
\* commands issued after the reply was observed are, adds it behind the
\* initialized notification; and the pump writes what was sent in the order
\* it was sent, so the message is written after initialized.
C37_AfterInitialized ==
    /\ [][ (InitializeResolved /\ Len(Sent') > Len(Sent)) =>
               \E i \in DOMAIN Sent : Sent[i] = initialized_notification ]_vars
    /\ [](InitializeResolved /\ runner = "running" =>
               \E i \in DOMAIN Sent : Sent[i] = initialized_notification)
    /\ [][ Extends(Sent', Sent) /\ Extends(stdin', stdin) /\ Len(stdin') <= Len(stdin) + 1 ]_vars

\* a caller issued a request command when its Initialize reply was
\* resolved, and the child has received initialized and then the request
C37_Witness ==
    /\ InitializeResolved
    /\ Len(slots) = 2
    /\ slots[1].kind = "Initialize"
    /\ slots[2].kind = "GetPlainGoals"
    /\ Len(stdin) = 3
    /\ stdin[2] = initialized_notification
    /\ stdin[3].method = "$/lean/plainGoal"

\* C38: once the session's run loop has ended, for whatever reason, its
\* pump ends as well.
C38_PumpEnds == (runner = "ended") ~> (pump = "ended")

\* C39: a listing of the statuses succeeds with one status for every
\* session GetSessions returned, also when the run loop of one of them has
\* ended and the session is not yet removed from the dictionary: no
\* listing ends in an error.
C39_ListingSucceeds ==
    \A s \in DOMAIN set_slots :
        set_slots[s].kind = "GetSessions" => set_slots[s].st \in {"waiting", "Ok", "Listed"}

\* the directories at or above lean_path that hold a manifest themselves
Holding(p) ==
    { d \in { SubSeq(p.lean_path, 1, n) : n \in 0 .. Len(p.lean_path) } :
        /\ d # p.lean_path \/ p.is_dir
        /\ Append(d, MANIFEST_FILE_NAME) \in p.files }

\* C40: the project directory of a new session is the nearest directory at
\* or above lean_path that holds lake-manifest.json itself, lean_path when
\* it is such a directory, and the resolution fails with NoManifest exactly
\* when there is no such directory.
C40_ProjectDirectory ==
    IF Holding(project) = {} THEN project.result = NoManifest
    ELSE /\ project.result.ok
         /\ project.result.path \in Holding(project)
         /\ \A d \in Holding(project) : Len(d) <= Len(project.result.path)

=============================================================================
